---- MODULE Spec2Model ----
(***************************************************************************)
(* Image clustering and case-based classification of data-tools:           *)
(*   scripts/embedding.py              ImageEmbedding                       *)
(*   scripts/image_cluster.py          ImageCluster                         *)
(*   scripts/image_case_classifier.py  CaseLibrary, CaseBasedClassifier     *)
(*                                                                         *)
(* Embedding vectors are unit vectors with rational coordinates k/5; a     *)
(* vector is stored as the pair of its numerators, so a dot product is in  *)
(* units of 1/25 (One == 25 is the similarity 1.0).  Thresholds are in the *)
(* same unit.                                                              *)
(***************************************************************************)
EXTENDS Integers, Sequences, FiniteSets, TLC

(* ------------------------------ bounds --------------------------------- *)
\* longest batch of image paths handed to cluster_images
MaxBatch == 4

\* most entries the case library holds before add_case is no longer called
MaxCases == 3

\* longest list of entries under one label of a persisted document
MaxDocList == 2

\* longest batch of image paths handed to classify_images
MaxQuery == 2

\* largest top_k classify_image is called with
MaxTopK == 3

(* ------------------------- embedding provider -------------------------- *)
\* Python's None where a vector is expected
None == <<>>

\* the similarity 1.0 on the 1/25 scale
One == 25

\* the image files of the model: four that embed and one that does not
Images == {"a.png", "b.png", "c.png", "d.png", "x.png"}

\* ImageEmbedding.encode_image: the unit vector of an image, None on failure
encode_image(image_path) ==
    CASE image_path = "a.png" -> <<5, 0>>
      [] image_path = "b.png" -> <<3, 4>>
      [] image_path = "c.png" -> <<0, 5>>
      [] image_path = "d.png" -> <<4, 3>>
      [] OTHER -> None

\* np.dot
Dot(a, b) == a[1] * b[1] + a[2] * b[2]

\* largest r with r * r <= n (np.linalg.norm, rounded down to the grid)
ISqrt(n) == CHOOSE r \in 0..n : r * r <= n /\ (r + 1) * (r + 1) > n

\* ImageEmbedding.compute_similarity
compute_similarity(embedding1, embedding2, method) ==
    CASE method = "cosine" -> Dot(embedding1, embedding2)
      [] method = "euclidean" ->
            ISqrt((embedding1[1] - embedding2[1]) * (embedding1[1] - embedding2[1])
                  + (embedding1[2] - embedding2[2]) * (embedding1[2] - embedding2[2]))
      [] method = "dot" -> Dot(embedding1, embedding2)
      [] OTHER -> "ValueError"

\* the thresholds a caller passes (0.0, 0.6, 0.8, 1.0)
Thresholds == {0, 15, 20, 25}

\* the thresholds classify_images is called with (the default 0.0, 0.8, 1.0)
ClassifyThresholds == {0, 20, 25}

(* ------------------------------ state ---------------------------------- *)
VARIABLES
    image_paths,           \* the batch handed to cluster_images
    similarity_threshold,  \* the threshold of the call
    cl_embeddings,         \* cluster_images: embeddings
    valid_paths,           \* cluster_images: valid_paths
    clusters,              \* _cluster_by_similarity: clusters (dict id -> list)
    cluster_id,            \* _cluster_by_similarity: cluster_id
    assigned,              \* _cluster_by_similarity: assigned
    i,                     \* outer loop index (0-based, as in the code)
    j,                     \* inner loop index (0-based)
    compared,              \* the pairs <<i, j>> compute_similarity was called on
    pc,                    \* position of the running call
    disk,                  \* the file at CaseLibrary.library_path
    cases,                 \* CaseLibrary.cases (dict label -> list of entries)
    embeddings,            \* CaseLibrary.embeddings (dict label -> list of vectors)
    last,                  \* the latest CaseLibrary call and what it returned
    save_pc,               \* position inside save_library
    disk_before,           \* the file when the running save_library was entered
    results,               \* classify_images: results (dict label -> list of paths)
    unclassified,          \* classify_images: unclassified
    query,                 \* the image of the latest classify_image call
    ret,                   \* what the latest classify_image call returned
    top_k,                 \* the top_k of the latest classify_image call
    reported,              \* the paths a "cannot embed" warning was printed for
    positions,             \* clusters by position: dict id -> list of indexes in valid_paths
    n_clusters,            \* cluster_by_kmeans: the n_clusters argument (None or <<n>>)
    kmeans_n_clusters,     \* the n_clusters the KMeans object was built with (0: not built)
    command,               \* main(): the parsed command line
    exit_code,             \* main(): the exit status of the process
    embedding1,            \* compute_similarity: its first vector
    embedding2,            \* compute_similarity: its second vector
    method,                \* compute_similarity: the method name of the latest call
    outcome,               \* what the latest compute_similarity call returned or raised
    csv_file,              \* the physical lines of the file at CSVReader.file_path
    chunk_size,            \* read_chunks: chunk_size
    consumed,              \* the number of lines the csv reader has taken from the file
    chunk,                 \* read_chunks: chunk
    chunks,                \* the chunks read_chunks has yielded
    csv_pc,                \* position of the read_chunks generator
    data,                  \* what read_all returned (None: not called)
    row_count,             \* what get_row_count returned (None: not called)
    enc_image_paths,       \* encode_images: image_paths
    batch_size,            \* encode_images: batch_size
    batch_start,           \* encode_images: i, the index the running batch starts at
    batch_pos,             \* encode_images: idx, the place of the loading loop in the batch
    batch_indices,         \* encode_images: batch_indices (one per tensor of batch_images)
    enc_results,           \* encode_images: results
    failed_batches,        \* the start indexes of the batches the model raised on
    enc_pc                 \* position of the encode_images call

reportVars == <<reported, positions>>

kmeansVars == <<n_clusters, kmeans_n_clusters>>

mainVars == <<command, exit_code>>

similarityVars == <<embedding1, embedding2, method, outcome>>

csvVars == <<csv_file, chunk_size, consumed, chunk, chunks, csv_pc, data, row_count>>

encodeVars == <<enc_image_paths, batch_size, batch_start, batch_pos, batch_indices,
                enc_results, failed_batches, enc_pc>>

toolVars == <<similarityVars, csvVars, encodeVars>>

clusterVars == <<image_paths, similarity_threshold, cl_embeddings, valid_paths,
                 clusters, cluster_id, assigned, i, j, compared, pc,
                 reportVars, kmeansVars>>

libraryVars == <<disk, cases, embeddings, last, save_pc, disk_before>>

vars == <<image_paths, similarity_threshold, cl_embeddings, valid_paths,
          clusters, cluster_id, assigned, i, j, compared, pc,
          disk, cases, embeddings, last, save_pc, disk_before,
          results, unclassified, query, ret, top_k,
          reported, positions, n_clusters, kmeans_n_clusters, command, exit_code,
          embedding1, embedding2, method, outcome,
          csv_file, chunk_size, consumed, chunk, chunks, csv_pc, data, row_count,
          enc_image_paths, batch_size, batch_start, batch_pos, batch_indices,
          enc_results, failed_batches, enc_pc>>

classifyVars == <<results, unclassified, query, ret, top_k>>

\* the empty dict
EmptyDict == [k \in {} |-> <<>>]

\* all sequences over S of length 0..n
RECURSIVE SeqsUpTo(_, _)
SeqsUpTo(S, n) ==
    IF n = 0 THEN {<<>>}
    ELSE LET shorter == SeqsUpTo(S, n - 1)
         IN shorter \cup {Append(s, x) : s \in {t \in shorter : Len(t) = n - 1}, x \in S}

(* ------------------------- Python dict and list ------------------------ *)
\* A dict is the sequence of its items [k, v] in insertion order.
Keys(d) == {d[n].k : n \in 1..Len(d)}

\* key in d
Has(d, key) == key \in Keys(d)

\* d[key]
Get(d, key) == d[CHOOSE n \in 1..Len(d) : d[n].k = key].v

\* d[key] = value: in place for a key of d, at the end for a new key
Put(d, key, value) ==
    IF Has(d, key)
    THEN [n \in 1..Len(d) |-> IF d[n].k = key THEN [k |-> key, v |-> value] ELSE d[n]]
    ELSE Append(d, [k |-> key, v |-> value])

\* del d[key]
Del(d, key) == SelectSeq(d, LAMBDA item : item.k # key)

\* list(d.keys())
KeyList(d) == [n \in 1..Len(d) |-> d[n].k]

\* lst.pop(index) for a 0-based index of lst: the list without that element
Pop(lst, index) ==
    [n \in 1..(Len(lst) - 1) |-> IF n <= index THEN lst[n] ELSE lst[n + 1]]

(* ------------------------------ CaseLibrary ---------------------------- *)
\* the labels add_case and remove_case are called with; Unclassified stands
\* for the label of line 279 that classify_images files unclassified items under
Unclassified == "unclassified"

CaseNames == {"home", "search"}

\* the images add_case is called with
CaseImages == {"a.png", "b.png", "x.png"}

\* the descriptions add_case is called with
Descriptions == {""}

\* the case_index values remove_case is called with
CaseIndexes == {-1, 0, 1, 2}

\* the dict add_case builds for an image: path, embedding, description
CaseInfo(image_path, embedding, description) ==
    [kind |-> "object", path |-> image_path, embedding |-> embedding,
     description |-> description]

\* 'embedding' in item, for an item of a persisted list
HasEmbedding(item) == item.embedding # None

\* The entries a persisted list holds: one with its vector and one without
\* the embedding field.
DocItems ==
    { CaseInfo("a.png", encode_image("a.png"), ""),
      CaseInfo("c.png", None, "") }

\* a JSON number where an entry is expected
Number == [kind |-> "number", path |-> "", embedding |-> None, description |-> ""]

\* the lists of a persisted document: entries only, or a number at the end
DocLists ==
    SeqsUpTo(DocItems, MaxDocList)
    \cup {<<Number>>, <<CaseInfo("a.png", encode_image("a.png"), ""), Number>>}

\* The values a label of a persisted document maps to: one object (the old
\* format), a list, or a scalar.
DocValues ==
    {[shape |-> "object", items |-> <<e>>] : e \in DocItems}
    \cup {[shape |-> "list", items |-> l] : l \in DocLists}
    \cup {[shape |-> "scalar", items |-> <<>>]}

\* The file at library_path: missing, a JSON document (a dict label -> value),
\* or text json.load rejects (an empty or truncated file among others).
MissingFile == [state |-> "missing", body |-> <<>>]

Document(body) == [state |-> "document", body |-> body]

Truncated(body) == [state |-> "truncated", body |-> body]

\* the values of the second label of a document: an old-format object and a
\* list json.load accepts and the loading loop fails on
SecondValues ==
    { [shape |-> "object",
       items |-> <<CaseInfo("a.png", encode_image("a.png"), "")>>],
      [shape |-> "list", items |-> <<Number>>] }

\* the documents the library is constructed from: up to two labels
Docs ==
    {MissingFile, Truncated(<<>>), Document(<<>>)}
    \cup {Document(<<[k |-> "home", v |-> x]>>) : x \in DocValues}
    \cup {Document(<<[k |-> "home", v |-> x], [k |-> "search", v |-> y]>>) :
             x \in DocValues, y \in SecondValues}

\* lines 162-176 for the items n.. of a parsed document: the two dicts, or
\* the exception an item raises
RECURSIVE LoadItems(_, _, _, _)
LoadItems(body, n, cs, es) ==
    IF n > Len(body) THEN [raised |-> FALSE, cases |-> cs, embeddings |-> es]
    ELSE LET case_name == body[n].k
             case_data == body[n].v
         IN IF case_data.shape = "object" /\ HasEmbedding(case_data.items[1])
            THEN LoadItems(body, n + 1,
                           Put(cs, case_name, case_data.items),
                           Put(es, case_name, <<case_data.items[1].embedding>>))
            ELSE IF case_data.shape = "list"
            THEN IF \E m \in 1..Len(case_data.items) :
                        case_data.items[m].kind = "number"
                 THEN [raised |-> TRUE, cases |-> Put(cs, case_name, case_data.items),
                       embeddings |-> es]
                 ELSE LoadItems(body, n + 1,
                                Put(cs, case_name, case_data.items),
                                Put(es, case_name,
                                    LET with == SelectSeq(case_data.items, HasEmbedding)
                                    IN [m \in 1..Len(with) |-> with[m].embedding]))
            ELSE LoadItems(body, n + 1, cs, es)

\* the variant that keeps one entry per label, as the old format did
LoadLibraryFirstOnly(file, cs, es) ==
    IF file.state = "missing" THEN [cases |-> cs, embeddings |-> es]
    ELSE IF file.state # "document" THEN [cases |-> <<>>, embeddings |-> <<>>]
    ELSE LET loaded == LoadItems(file.body, 1, cs, es)
             First(d) == [n \in 1..Len(d) |->
                             [k |-> d[n].k,
                              v |-> IF d[n].v = <<>> THEN <<>> ELSE <<d[n].v[1]>>]]
         IN IF loaded.raised THEN [cases |-> <<>>, embeddings |-> <<>>]
            ELSE [cases |-> First(loaded.cases),
                  embeddings |-> First(loaded.embeddings)]

\* the variant whose handler keeps what the loop had stored when it raised
LoadLibraryPartial(file, cs, es) ==
    IF file.state = "missing" THEN [cases |-> cs, embeddings |-> es]
    ELSE IF file.state # "document" THEN [cases |-> <<>>, embeddings |-> <<>>]
    ELSE LET loaded == LoadItems(file.body, 1, cs, es)
         IN [cases |-> loaded.cases, embeddings |-> loaded.embeddings]

\* CaseLibrary._load_library on the dicts cs, es of the constructor
LoadLibrary(file, cs, es) ==
    IF file.state = "missing" THEN [cases |-> cs, embeddings |-> es]
    ELSE IF file.state # "document" THEN [cases |-> <<>>, embeddings |-> <<>>]
    ELSE LET loaded == LoadItems(file.body, 1, cs, es)
         IN IF loaded.raised THEN [cases |-> <<>>, embeddings |-> <<>>]
            ELSE [cases |-> loaded.cases, embeddings |-> loaded.embeddings]

\* the variant that writes the old format: one entry per label
SerializeFirst(cs) ==
    [n \in 1..Len(cs) |->
        [k |-> cs[n].k,
         v |-> [shape |-> "list",
                items |-> IF cs[n].v = <<>> THEN <<>> ELSE <<cs[n].v[1]>>]]]

\* json.dump(self.cases): every label maps to the list of its entries
Serialize(cs) ==
    [n \in 1..Len(cs) |-> [k |-> cs[n].k, v |-> [shape |-> "list", items |-> cs[n].v]]]

\* sum(len(cases) for cases in self.cases.values())
RECURSIVE TotalCases(_)
TotalCases(cs) ==
    IF cs = <<>> THEN 0 ELSE Len(cs[1].v) + TotalCases(Tail(cs))

\* len(cs.get(case_name, []))
CaseCount(cs, case_name) ==
    IF Has(cs, case_name) THEN Len(Get(cs, case_name)) ELSE 0

\* CaseLibrary.get_case_count
get_case_count(case_name) == CaseCount(cases, case_name)

\* CaseLibrary.list_cases
list_cases == KeyList(cases)

\* CaseLibrary.get_case_info(case_name, case_index): <<entry>>, or <<>> for None;
\* indexed tells whether a case_index was passed
get_case_info(case_name, indexed, case_index) ==
    IF ~Has(cases, case_name) THEN <<>>
    ELSE LET entries == Get(cases, case_name)
         IN IF ~indexed
            THEN IF entries # <<>> THEN <<entries[1]>> ELSE <<>>
            ELSE IF 0 <= case_index /\ case_index < Len(entries)
                 THEN <<entries[case_index + 1]>>
                 ELSE <<>>

\* a call record: indexed tells whether a case_index was passed; returned is
\* the printed return value, or the exception the call raised
Call(op, case_name, image_path, indexed, case_index, returned) ==
    [op |-> op, case_name |-> case_name, image_path |-> image_path,
     indexed |-> indexed, case_index |-> case_index, returned |-> returned]

NoCall == Call("none", "", "", FALSE, 0, "None")

\* CaseLibrary.__init__ on the file
Constructed(file) ==
    LET loaded == LoadLibrary(file, <<>>, <<>>)
    IN /\ disk = file
       /\ cases = loaded.cases
       /\ embeddings = loaded.embeddings
       /\ last = NoCall
       /\ save_pc = "idle"
       /\ disk_before = file

\* no classification is running
NoClassification ==
    /\ results = EmptyDict
    /\ unclassified = <<>>
    /\ query = ""
    /\ ret = <<>>
    /\ top_k = 1

\* no warning printed, no KMeans object built, n_clusters left at its default
NoKMeans ==
    /\ reported = <<>>
    /\ positions = EmptyDict
    /\ n_clusters = None
    /\ kmeans_n_clusters = 0

\* the process has not exited
Running == -1

\* the library is used through its methods, not through main()
NoCommand == [name |-> "none", case_name |-> "", image_path |-> "",
              image_files |-> <<>>, threshold |-> 0]

NoMain ==
    /\ command = NoCommand
    /\ exit_code = Running

\* a call of compute_similarity returns a float or raises
Returns(value) == [raised |-> "", value |-> <<value>>]

Raises(exception) == [raised |-> exception, value |-> <<>>]

\* compute_similarity has not been called
NoOutcome == [raised |-> "", value |-> <<>>]

NoSimilarity ==
    /\ embedding1 = None
    /\ embedding2 = None
    /\ method = ""
    /\ outcome = NoOutcome

\* no CSVReader has been constructed
NoCsv ==
    /\ csv_file = <<>>
    /\ chunk_size = 0
    /\ consumed = 0
    /\ chunk = <<>>
    /\ chunks = <<>>
    /\ csv_pc = "idle"
    /\ data = None
    /\ row_count = None

\* encode_images is not running
NoEncode ==
    /\ enc_image_paths = <<>>
    /\ batch_size = 0
    /\ batch_start = 0
    /\ batch_pos = 0
    /\ batch_indices = <<>>
    /\ enc_results = <<>>
    /\ failed_batches = {}
    /\ enc_pc = "idle"

\* none of the helpers outside the library is in use
NoTool == NoSimilarity /\ NoCsv /\ NoEncode

\* no clustering is running
NoClustering ==
    /\ image_paths = <<>>
    /\ similarity_threshold = 0
    /\ cl_embeddings = <<>>
    /\ valid_paths = <<>>
    /\ clusters = EmptyDict
    /\ cluster_id = 0
    /\ assigned = <<>>
    /\ i = 0
    /\ j = 0
    /\ compared = {}
    /\ pc = "idle"
    /\ NoKMeans

\* a CaseLibrary constructed from one of the documents
LibraryInit ==
    /\ \E file \in Docs : Constructed(file)
    /\ NoClustering
    /\ NoClassification
    /\ NoMain
    /\ NoTool

\* a new CaseLibrary(library_path) replaces the one in use (lines 30-36)
Construct ==
    /\ save_pc = "idle"
    /\ LET loaded == LoadLibrary(disk, <<>>, <<>>)
       IN /\ cases' = loaded.cases
          /\ embeddings' = loaded.embeddings
    /\ last' = Call("construct", "", "", FALSE, 0, "None")
    /\ UNCHANGED <<disk, save_pc, disk_before>>
    /\ UNCHANGED <<clusterVars, classifyVars>>
    /\ UNCHANGED <<mainVars, toolVars>>

\* the variant that overwrites the category with the new entry
AddCaseReplace(case_name, image_path, description) ==
    /\ save_pc = "idle"
    /\ TotalCases(cases) < MaxCases
    /\ LET embedding == encode_image(image_path)
       IN IF embedding = None
          THEN /\ last' = Call("add_case", case_name, image_path, FALSE, 0, "False")
               /\ UNCHANGED <<cases, embeddings>>
          ELSE /\ cases' = Put(cases, case_name,
                               <<CaseInfo(image_path, embedding, description)>>)
               /\ embeddings' = Put(embeddings, case_name, <<embedding>>)
               /\ last' = Call("add_case", case_name, image_path, FALSE, 0, "True")
    /\ UNCHANGED <<disk, save_pc, disk_before>>
    /\ UNCHANGED <<clusterVars, classifyVars>>
    /\ UNCHANGED <<mainVars, toolVars>>

\* the variant that writes the file on every successful add_case
AddCaseAutoSave(case_name, image_path, description) ==
    /\ save_pc = "idle"
    /\ TotalCases(cases) < MaxCases
    /\ LET embedding == encode_image(image_path)
           cs == IF Has(cases, case_name) THEN cases ELSE Put(cases, case_name, <<>>)
           es == IF Has(cases, case_name) THEN embeddings
                 ELSE Put(embeddings, case_name, <<>>)
       IN IF embedding = None
          THEN /\ last' = Call("add_case", case_name, image_path, FALSE, 0, "False")
               /\ UNCHANGED <<cases, embeddings, disk>>
          ELSE /\ cases' = Put(cs, case_name,
                               Append(Get(cs, case_name),
                                      CaseInfo(image_path, embedding, description)))
               /\ embeddings' = Put(es, case_name, Append(Get(es, case_name), embedding))
               /\ disk' = Document(Serialize(cases'))
               /\ last' = Call("add_case", case_name, image_path, FALSE, 0, "True")
    /\ UNCHANGED <<save_pc, disk_before>>
    /\ UNCHANGED <<clusterVars, classifyVars>>
    /\ UNCHANGED <<mainVars, toolVars>>

\* CaseLibrary.add_case (lines 57-82)
AddCase(case_name, image_path, description) ==
    /\ save_pc = "idle"
    /\ TotalCases(cases) < MaxCases
    /\ LET embedding == encode_image(image_path)
           cs == IF Has(cases, case_name) THEN cases ELSE Put(cases, case_name, <<>>)
           es == IF Has(cases, case_name) THEN embeddings
                 ELSE Put(embeddings, case_name, <<>>)
       IN IF embedding = None
          THEN /\ last' = Call("add_case", case_name, image_path, FALSE, 0, "False")
               /\ UNCHANGED <<cases, embeddings>>
          ELSE /\ cases' = Put(cs, case_name,
                               Append(Get(cs, case_name),
                                      CaseInfo(image_path, embedding, description)))
               /\ embeddings' = Put(es, case_name, Append(Get(es, case_name), embedding))
               /\ last' = Call("add_case", case_name, image_path, FALSE, 0, "True")
    /\ UNCHANGED <<disk, save_pc, disk_before>>
    /\ UNCHANGED <<clusterVars, classifyVars>>
    /\ UNCHANGED <<mainVars, toolVars>>

\* the variant whose index check lets a negative index through, as list.pop does
RemoveCaseAtNegative(case_name, case_index) ==
    /\ save_pc = "idle"
    /\ IF ~Has(cases, case_name)
       THEN /\ last' = Call("remove_case", case_name, "", TRUE, case_index, "False")
            /\ UNCHANGED <<cases, embeddings>>
       ELSE IF case_index < Len(Get(cases, case_name))
                /\ case_index >= 0 - Len(Get(cases, case_name))
       THEN LET at == IF case_index < 0
                      THEN case_index + Len(Get(cases, case_name)) ELSE case_index
                popped == Pop(Get(cases, case_name), at)
            IN IF at < Len(Get(embeddings, case_name))
               THEN /\ cases' = IF popped = <<>> THEN Del(cases, case_name)
                                ELSE Put(cases, case_name, popped)
                    /\ embeddings' =
                          IF popped = <<>> THEN Del(embeddings, case_name)
                          ELSE Put(embeddings, case_name,
                                   Pop(Get(embeddings, case_name), at))
                    /\ last' = Call("remove_case", case_name, "", TRUE, case_index, "True")
               ELSE /\ cases' = Put(cases, case_name, popped)
                    /\ UNCHANGED embeddings
                    /\ last' = Call("remove_case", case_name, "", TRUE, case_index,
                                    "IndexError")
       ELSE /\ last' = Call("remove_case", case_name, "", TRUE, case_index, "False")
            /\ UNCHANGED <<cases, embeddings>>
    /\ UNCHANGED <<disk, save_pc, disk_before>>
    /\ UNCHANGED <<clusterVars, classifyVars>>
    /\ UNCHANGED <<mainVars, toolVars>>

\* CaseLibrary.remove_case with a case_index (lines 92-93 and 101-114)
RemoveCaseAt(case_name, case_index) ==
    /\ save_pc = "idle"
    /\ IF ~Has(cases, case_name)
       THEN /\ last' = Call("remove_case", case_name, "", TRUE, case_index, "False")
            /\ UNCHANGED <<cases, embeddings>>
       ELSE IF 0 <= case_index /\ case_index < Len(Get(cases, case_name))
       THEN LET popped == Pop(Get(cases, case_name), case_index)
            IN IF case_index < Len(Get(embeddings, case_name))
               THEN \* both pops succeed; an emptied category is deleted
                    /\ cases' = IF popped = <<>> THEN Del(cases, case_name)
                                ELSE Put(cases, case_name, popped)
                    /\ embeddings' =
                          IF popped = <<>> THEN Del(embeddings, case_name)
                          ELSE Put(embeddings, case_name,
                                   Pop(Get(embeddings, case_name), case_index))
                    /\ last' = Call("remove_case", case_name, "", TRUE, case_index, "True")
               ELSE \* line 105 raises IndexError after line 104 popped the entry
                    /\ cases' = Put(cases, case_name, popped)
                    /\ UNCHANGED embeddings
                    /\ last' = Call("remove_case", case_name, "", TRUE, case_index,
                                    "IndexError")
       ELSE /\ last' = Call("remove_case", case_name, "", TRUE, case_index, "False")
            /\ UNCHANGED <<cases, embeddings>>
    /\ UNCHANGED <<disk, save_pc, disk_before>>
    /\ UNCHANGED <<clusterVars, classifyVars>>
    /\ UNCHANGED <<mainVars, toolVars>>

\* CaseLibrary.remove_case without case_index (lines 92-100)
RemoveCase(case_name) ==
    /\ save_pc = "idle"
    /\ IF ~Has(cases, case_name)
       THEN /\ last' = Call("remove_case", case_name, "", FALSE, 0, "False")
            /\ UNCHANGED <<cases, embeddings>>
       ELSE /\ cases' = Del(cases, case_name)
            /\ embeddings' = IF Has(embeddings, case_name)
                             THEN Del(embeddings, case_name) ELSE embeddings
            /\ last' = Call("remove_case", case_name, "", FALSE, 0, "True")
    /\ UNCHANGED <<disk, save_pc, disk_before>>
    /\ UNCHANGED <<clusterVars, classifyVars>>
    /\ UNCHANGED <<mainVars, toolVars>>

(* ----------------------- CaseLibrary.save_library ---------------------- *)
\* line 146: open(library_path, 'w') raises, save_library returns False
SaveOpenFails ==
    /\ save_pc = "idle"
    /\ disk_before' = disk
    /\ last' = Call("save_library", "", "", FALSE, 0, "False")
    /\ UNCHANGED <<disk, cases, embeddings, save_pc>>
    /\ UNCHANGED <<clusterVars, classifyVars>>
    /\ UNCHANGED <<mainVars, toolVars>>

\* line 146: open(library_path, 'w') creates the file or truncates it
SaveOpen ==
    /\ save_pc = "idle"
    /\ disk_before' = disk
    /\ disk' = Truncated(<<>>)
    /\ save_pc' = "dump"
    /\ last' = Call("save_library", "", "", FALSE, 0, "None")
    /\ UNCHANGED <<cases, embeddings>>
    /\ UNCHANGED <<clusterVars, classifyVars>>
    /\ UNCHANGED <<mainVars, toolVars>>

\* line 147: json.dump writes the next label and its entries
SaveDump ==
    /\ save_pc = "dump"
    /\ Len(disk.body) < Len(cases)
    /\ disk' = Truncated(SubSeq(Serialize(cases), 1, Len(disk.body) + 1))
    /\ UNCHANGED <<cases, embeddings, last, save_pc, disk_before>>
    /\ UNCHANGED <<clusterVars, classifyVars>>
    /\ UNCHANGED <<mainVars, toolVars>>

\* lines 150-152: a write raises, the file stays as far as it was written
SaveWriteFails ==
    /\ save_pc = "dump"
    /\ save_pc' = "idle"
    /\ last' = Call("save_library", "", "", FALSE, 0, "False")
    /\ UNCHANGED <<disk, cases, embeddings, disk_before>>
    /\ UNCHANGED <<clusterVars, classifyVars>>
    /\ UNCHANGED <<mainVars, toolVars>>

\* lines 147-149: the closing brace is written, the file is closed
SaveClose ==
    /\ save_pc = "dump"
    /\ Len(disk.body) = Len(cases)
    /\ disk' = Document(Serialize(cases))
    /\ save_pc' = "idle"
    /\ last' = Call("save_library", "", "", FALSE, 0, "True")
    /\ UNCHANGED <<cases, embeddings, disk_before>>
    /\ UNCHANGED <<clusterVars, classifyVars>>
    /\ UNCHANGED <<mainVars, toolVars>>

\* the library in memory: constructed from a document, then changed by calls
LibraryNext ==
    \/ Construct
    \/ \E case_name \in CaseNames, image_path \in CaseImages,
          description \in Descriptions : AddCase(case_name, image_path, description)
    \/ \E case_name \in CaseNames : RemoveCase(case_name)
    \/ \E case_name \in CaseNames, case_index \in CaseIndexes :
          RemoveCaseAt(case_name, case_index)

Spec == LibraryInit /\ [][LibraryNext]_vars

\* the documents the saving library starts from
SaveDocs ==
    { MissingFile,
      Document(<<[k |-> "home",
                  v |-> [shape |-> "object",
                         items |-> <<CaseInfo("a.png", encode_image("a.png"), "")>>]]>>) }

SaveInit ==
    /\ \E file \in SaveDocs : Constructed(file)
    /\ NoClustering
    /\ NoClassification
    /\ NoMain
    /\ NoTool

\* the library and its file: calls with one image, and save_library
SaveNext ==
    \/ Construct
    \/ \E case_name \in CaseNames : AddCase(case_name, "b.png", "")
    \/ \E case_name \in CaseNames : RemoveCase(case_name)
    \/ \E case_name \in CaseNames : RemoveCaseAt(case_name, 0)
    \/ SaveOpenFails
    \/ SaveOpen
    \/ SaveDump
    \/ SaveWriteFails
    \/ SaveClose

SpecSave == SaveInit /\ [][SaveNext]_vars

(* ---------------------- properties of the CaseLibrary ------------------- *)
\* the entries of a label, the empty list for an absent label
EntriesOf(cs, case_name) == IF Has(cs, case_name) THEN Get(cs, case_name) ELSE <<>>

\* C6: add_case with an image that embeds returns True, creates the category
\* if the label is absent, appends exactly one entry at the end of that
\* category (the count grows by 1, an identical vector is not de-duplicated)
\* and leaves every other category and the existing entries unchanged.
C6_AddAppends ==
    [][(last'.op = "add_case" /\ encode_image(last'.image_path) # None) =>
          LET name == last'.case_name
              old == EntriesOf(cases, name)
              new == EntriesOf(cases', name)
          IN /\ last'.returned = "True"
             /\ Keys(cases') = Keys(cases) \cup {name}
             /\ CaseCount(cases', name) = CaseCount(cases, name) + 1
             /\ SubSeq(new, 1, Len(old)) = old
             /\ new[Len(new)].path = last'.image_path
             /\ new[Len(new)].embedding = encode_image(last'.image_path)
             /\ \A other \in Keys(cases) \ {name} :
                   Get(cases', other) = Get(cases, other)
             /\ SelectSeq(KeyList(cases'), LAMBDA k : k # name)
                   = SelectSeq(KeyList(cases), LAMBDA k : k # name)]_vars

\* the same image was added twice under one label while another category
\* exists: the label counts 2 entries with the same vector
C6_Witness ==
    /\ last.op = "add_case"
    /\ last.returned = "True"
    /\ get_case_count(last.case_name) = 2
    /\ Get(cases, last.case_name)[1] = Get(cases, last.case_name)[2]
    /\ Get(embeddings, last.case_name)[1] = Get(embeddings, last.case_name)[2]
    /\ Cardinality(Keys(cases)) = 2

\* C7: remove_case(label) without index deletes the whole category;
\* remove_case(label, i) with a valid i deletes exactly entry i, keeps the other
\* entries in their order, and deletes the category when that was its last
\* entry, so that the label is absent afterwards and its count is 0.
C7_RemoveDeletes ==
    [][(last'.op = "remove_case" /\ Has(cases, last'.case_name)) =>
          LET name == last'.case_name
              old == Get(cases, name)
              at == last'.case_index
          IN IF ~last'.indexed
             THEN /\ last'.returned = "True"
                  /\ ~Has(cases', name)
                  /\ CaseCount(cases', name) = 0
             ELSE (0 <= at /\ at < Len(old)) =>
                     /\ last'.returned = "True"
                     /\ IF Len(old) = 1
                        THEN ~Has(cases', name) /\ CaseCount(cases', name) = 0
                        ELSE /\ Has(cases', name)
                             /\ Get(cases', name) = Pop(old, at)]_vars

\* C8: remove_case(label, i) with an index outside 0..count(label)-1, negative
\* indices included, fails (it returns False) and leaves the labels, the
\* entries and their order unchanged.
C8_BadIndexRejected ==
    [][(/\ last'.op = "remove_case"
        /\ last'.indexed
        /\ ~(0 <= last'.case_index
             /\ last'.case_index < CaseCount(cases, last'.case_name))) =>
          /\ last'.returned = "False"
          /\ cases' = cases
          /\ embeddings' = embeddings]_vars

\* remove_case(label, -1) was refused on a category that has entries
C8_Witness ==
    /\ last.op = "remove_case"
    /\ last.indexed
    /\ last.case_index = -1
    /\ last.returned = "False"
    /\ get_case_count(last.case_name) >= 2
    /\ Len(Get(embeddings, last.case_name)) >= 2

\* C9: every label list_cases returns has a count of at least 1: no empty
\* category is ever present.
C9_NoEmptyCategory ==
    \A n \in 1..Len(list_cases) : get_case_count(list_cases[n]) >= 1

\* C10: while save_library runs and after it returned, also when it failed,
\* the file is either the complete previous document or the complete
\* serialization of the library in memory.
C10_AtomicSave ==
    last.op = "save_library" =>
        \/ disk = disk_before
        \/ disk = Document(Serialize(cases))

\* the library is as the constructor left it: nothing was added or removed
JustLoaded == last.op \in {"none", "construct"}

\* json.load accepts the file and the loading loop raises on none of its items
Loads(file) ==
    /\ file.state = "document"
    /\ ~LoadItems(file.body, 1, <<>>, <<>>).raised

\* C12: an entry of the persisted document without a vector field is skipped
\* by loading, in a list as well as alone in the old format: it is not counted
\* by get_case_count and get_case_info never returns it.
C12_SkippedNotLoaded ==
    (JustLoaded /\ Loads(disk)) =>
        \A n \in 1..Len(disk.body) :
            LET case_name == disk.body[n].k
                persisted == disk.body[n].v.items
            IN /\ get_case_count(case_name) = Len(SelectSeq(persisted, HasEmbedding))
               /\ \A case_index \in 0..(Len(persisted) - 1) :
                      LET info == get_case_info(case_name, TRUE, case_index)
                      IN info # <<>> => HasEmbedding(info[1])

\* the document with every old-format object turned into a one-element list
AsLists(file) ==
    Document([n \in 1..Len(file.body) |->
                 [k |-> file.body[n].k,
                  v |-> IF file.body[n].v.shape = "object"
                        THEN [shape |-> "list", items |-> file.body[n].v.items]
                        ELSE file.body[n].v]])

\* the old-format objects of the document have a vector
ObjectsHaveVector(file) ==
    \A n \in 1..Len(file.body) :
        file.body[n].v.shape = "object" => HasEmbedding(file.body[n].v.items[1])

\* C13: in a document that loads, a label mapping to one entry object with a
\* vector has count 1 and holds that entry; a label mapping to a list of N
\* entry objects has count N, in list order; turning the old-format objects
\* into one-element lists loads to the same cases and the same vectors.
C13_LoadShapes ==
    (JustLoaded /\ Loads(disk)) =>
        /\ \A n \in 1..Len(disk.body) :
               LET case_name == disk.body[n].k
                   case_data == disk.body[n].v
               IN /\ (case_data.shape = "object" /\ HasEmbedding(case_data.items[1])) =>
                         /\ get_case_count(case_name) = 1
                         /\ get_case_info(case_name, FALSE, 0) = <<case_data.items[1]>>
                  /\ case_data.shape = "list" =>
                         /\ get_case_count(case_name) = Len(case_data.items)
                         /\ \A m \in 1..Len(case_data.items) :
                                get_case_info(case_name, TRUE, m - 1)
                                    = <<case_data.items[m]>>
        /\ ObjectsHaveVector(disk) =>
               LoadLibrary(AsLists(disk), <<>>, <<>>)
                   = [cases |-> cases, embeddings |-> embeddings]

\* a document with an old-format object and a two-entry list was loaded
C13_Witness ==
    /\ JustLoaded
    /\ Loads(disk)
    /\ \E n \in 1..Len(disk.body) :
           /\ disk.body[n].v.shape = "object"
           /\ get_case_count(disk.body[n].k) = 1
    /\ \E n \in 1..Len(disk.body) :
           /\ disk.body[n].v.shape = "list"
           /\ get_case_count(disk.body[n].k) = 2

\* the labels of the library and the number of entries of each
Counts(cs) == [case_name \in Keys(cs) |-> CaseCount(cs, case_name)]

\* C14: a library constructed from the file right after a save_library that
\* returned True has the same labels and, for every label, the same number
\* of entries as the library that was saved.
C14_RoundTrip ==
    [][(/\ last.op = "save_library"
        /\ last.returned = "True"
        /\ last'.op = "construct") => Counts(cases') = Counts(cases)]_vars

\* a library with two labels and three entries was saved to a file that
\* held something else, and the library in memory was loaded from that file
C14_Witness ==
    /\ last.op = "construct"
    /\ disk = Document(Serialize(cases))
    /\ disk_before # disk
    /\ Cardinality(Keys(cases)) = 2
    /\ TotalCases(cases) = 3

\* C15: add_case and remove_case leave the file as it is, and a library
\* constructed at any time holds what the file holds, so that without a
\* save_library in between it shows none of the additions and removals.
C15_OnlyInMemory ==
    [][/\ last'.op \in {"add_case", "remove_case"} => disk' = disk
       /\ last'.op = "construct" =>
              /\ disk' = disk
              /\ [cases |-> cases', embeddings |-> embeddings']
                     = LoadLibrary(disk, <<>>, <<>>)]_vars

\* an entry was added and the file, never written, does not show it
C15_Witness ==
    /\ last.op = "add_case"
    /\ last.returned = "True"
    /\ disk = disk_before
    /\ Counts(LoadLibrary(disk, <<>>, <<>>).cases) # Counts(cases)

\* entry n of the metadata of a label and entry n of its vectors describe
\* the same case, for every label of either dict
Aligned(cs, es) ==
    /\ Keys(cs) = Keys(es)
    /\ \A case_name \in Keys(cs) :
           /\ Len(Get(cs, case_name)) = Len(Get(es, case_name))
           /\ \A n \in 1..Len(Get(cs, case_name)) :
                  Get(cs, case_name)[n].embedding = Get(es, case_name)[n]

\* C26: cases and embeddings have the same labels and, for every label, the
\* same number of entries, entry n of one describing entry n of the other;
\* a remove_case with an index valid for cases does not raise.
C26_MapsAligned ==
    /\ Aligned(cases, embeddings)
    /\ (/\ last.op = "remove_case"
        /\ last.indexed
        /\ last.case_index >= 0) => last.returned # "IndexError"

\* a list of the document holds a JSON number where an entry is expected
HasNumber(file) ==
    \E n \in 1..Len(file.body) :
        /\ file.body[n].v.shape = "list"
        /\ \E m \in 1..Len(file.body[n].v.items) :
               file.body[n].v.items[m].kind = "number"

\* C30: a library constructed from a file json.load rejects, or from a
\* document with a malformed value after labels that load, has no label in
\* cases and none in embeddings; so has one constructed from a missing
\* file; the constructor returns in every case.
C30_LoadAllOrNothing ==
    JustLoaded =>
        /\ (\/ disk.state \in {"missing", "truncated"}
            \/ disk.state = "document" /\ HasNumber(disk)) =>
               /\ cases = <<>>
               /\ embeddings = <<>>
        /\ last.returned = "None"

\* the first label of the document loads, the list of the second holds a
\* number, and the constructed library is empty
C30_Witness ==
    /\ last.op = "construct"
    /\ disk.state = "document"
    /\ Len(disk.body) = 2
    /\ disk.body[1].v.shape = "list"
    /\ Len(disk.body[1].v.items) = 2
    /\ ~HasNumber(Document(<<disk.body[1]>>))
    /\ HasNumber(Document(<<disk.body[2]>>))
    /\ cases = <<>>
    /\ embeddings = <<>>

(* ------------------------- CaseBasedClassifier ------------------------- *)
\* the variant that scores a category by the mean similarity of its entries
RECURSIVE SumSimilarity(_, _)
SumSimilarity(embedding, case_embeddings_list) ==
    IF case_embeddings_list = <<>> THEN 0
    ELSE compute_similarity(embedding, Head(case_embeddings_list), "cosine")
             + SumSimilarity(embedding, Tail(case_embeddings_list))

MeanSimilarity(embedding, case_embeddings_list, max_similarity) ==
    IF case_embeddings_list = <<>> THEN max_similarity
    ELSE SumSimilarity(embedding, case_embeddings_list) \div Len(case_embeddings_list)

\* lines 222-227: the running maximum over the vectors of one category
RECURSIVE MaxSimilarity(_, _, _)
MaxSimilarity(embedding, case_embeddings_list, max_similarity) ==
    IF case_embeddings_list = <<>> THEN max_similarity
    ELSE LET similarity ==
                 compute_similarity(embedding, Head(case_embeddings_list), "cosine")
         IN MaxSimilarity(embedding, Tail(case_embeddings_list),
                          IF similarity > max_similarity THEN similarity
                          ELSE max_similarity)

\* lines 219-228: category_similarities, the pairs <<label, score>> in dict order
CategorySimilarities(embedding, es) ==
    [n \in 1..Len(es) |-> <<es[n].k, MaxSimilarity(embedding, es[n].v, 0 - One)>>]

\* lines 231-235: sorted(items, key=score, reverse=True), a stable sort: a pair
\* goes behind the earlier pairs whose score is not smaller
RECURSIVE SortedDescending(_)
SortedDescending(pairs) ==
    IF pairs = <<>> THEN <<>>
    ELSE LET rest == SortedDescending(SubSeq(pairs, 1, Len(pairs) - 1))
             x == pairs[Len(pairs)]
             before == SelectSeq(rest, LAMBDA y : y[2] >= x[2])
             after == SelectSeq(rest, LAMBDA y : y[2] < x[2])
         IN before \o <<x>> \o after

\* CaseBasedClassifier.classify_image (lines 214-237)
classify_image(image_path, k) ==
    LET embedding == encode_image(image_path)
    IN IF embedding = None THEN <<>>
       ELSE LET similarities ==
                    SortedDescending(CategorySimilarities(embedding, embeddings))
            IN SubSeq(similarities, 1, IF k < Len(similarities) THEN k
                                       ELSE Len(similarities))

\* the images classify_images is called with
QueryImages == {"b.png", "d.png", "x.png"}

\* the lists of the label "home" of a library that classifies: entries with
\* a vector, or one entry without the embedding field
HomeLists ==
    SeqsUpTo({CaseInfo("a.png", encode_image("a.png"), ""),
              CaseInfo("c.png", encode_image("c.png"), "")}, MaxDocList)
    \cup {<<CaseInfo("d.png", None, "")>>}

\* the lists of its other labels
OtherLists ==
    {<<>>, <<CaseInfo("a.png", encode_image("a.png"), "")>>,
     <<CaseInfo("c.png", encode_image("c.png"), "")>>}

\* a document with the labels whose list is not empty
LibraryDocument(home, search, other) ==
    Document(
        (IF home = <<>> THEN <<>>
         ELSE <<[k |-> "home", v |-> [shape |-> "list", items |-> home]]>>)
        \o (IF search = <<>> THEN <<>>
            ELSE <<[k |-> "search", v |-> [shape |-> "list", items |-> search]]>>)
        \o (IF other = <<>> THEN <<>>
            ELSE <<[k |-> Unclassified, v |-> [shape |-> "list", items |-> other]]>>))

\* the documents of the libraries that classify
ClassifyDocs ==
    {LibraryDocument(home, search, other) :
        home \in HomeLists, search \in OtherLists, other \in OtherLists}

\* a classifier on a loaded library, about to classify a batch
ClassifyInit ==
    /\ \E file \in ClassifyDocs : Constructed(file)
    /\ image_paths \in SeqsUpTo(QueryImages, MaxQuery)
    /\ similarity_threshold \in ClassifyThresholds
    /\ cl_embeddings = <<>>
    /\ valid_paths = <<>>
    /\ clusters = EmptyDict
    /\ cluster_id = 0
    /\ assigned = <<>>
    /\ i = 0
    /\ j = 0
    /\ compared = {}
    /\ pc = "classify"
    /\ NoKMeans
    /\ NoClassification
    /\ NoMain
    /\ NoTool

\* lines 259-273: one iteration of the loop of classify_images
ClassifyNext ==
    /\ pc = "classify"
    /\ i < Len(image_paths)
    /\ LET image_path == image_paths[i + 1]
           classifications == classify_image(image_path, 1)
       IN /\ query' = image_path
          /\ ret' = classifications
          /\ top_k' = 1
          /\ IF classifications # <<>>
                 /\ classifications[1][2] >= similarity_threshold
             THEN LET case_name == classifications[1][1]
                  IN /\ results' =
                          IF case_name \in DOMAIN results
                          THEN [results EXCEPT ![case_name] = Append(@, image_path)]
                          ELSE (case_name :> <<image_path>>) @@ results
                     /\ UNCHANGED unclassified
             ELSE /\ unclassified' = Append(unclassified, image_path)
                  /\ UNCHANGED results
    /\ i' = i + 1
    /\ UNCHANGED <<image_paths, similarity_threshold, cl_embeddings, valid_paths,
                   clusters, cluster_id, assigned, j, compared, pc>>
    /\ UNCHANGED libraryVars
    /\ UNCHANGED <<reportVars, kmeansVars, mainVars, toolVars>>

\* lines 278-281: the unclassified images are filed, the dict is returned
ClassifyDone ==
    /\ pc = "classify"
    /\ i = Len(image_paths)
    /\ results' = IF unclassified # <<>>
                  THEN (Unclassified :> unclassified) @@ results
                  ELSE results
    /\ pc' = "done"
    /\ UNCHANGED <<image_paths, similarity_threshold, cl_embeddings, valid_paths,
                   clusters, cluster_id, assigned, i, j, compared>>
    /\ UNCHANGED <<unclassified, query, ret, top_k>>
    /\ UNCHANGED libraryVars
    /\ UNCHANGED <<reportVars, kmeansVars, mainVars, toolVars>>

\* a call of classify_image(image_path, top_k) on the same library
ClassifyImage(image_path, k) ==
    /\ pc = "done"
    /\ query' = image_path
    /\ ret' = classify_image(image_path, k)
    /\ top_k' = k
    /\ UNCHANGED <<results, unclassified>>
    /\ UNCHANGED clusterVars
    /\ UNCHANGED libraryVars
    /\ UNCHANGED <<mainVars, toolVars>>

\* the images classify_image is called with: one whose vector is the vector
\* of an entry of the library, one that is near and one that does not embed
SingleImages == {"a.png", "b.png", "x.png"}

ClassifyAll ==
    \/ ClassifyNext
    \/ ClassifyDone
    \/ \E image_path \in SingleImages, k \in 1..MaxTopK : ClassifyImage(image_path, k)

SpecClassify == ClassifyInit /\ [][ClassifyAll]_vars

(* ---------------------- properties of the classifier -------------------- *)
\* the cosine similarities between a vector and the vectors of a category
SimilaritiesTo(embedding, case_name) ==
    LET vectors == Get(embeddings, case_name)
    IN {compute_similarity(embedding, vectors[n], "cosine") : n \in 1..Len(vectors)}

\* the largest of them; -1.0 for a category without vectors
BestScore(embedding, case_name) ==
    LET sims == SimilaritiesTo(embedding, case_name)
    IN IF sims = {} THEN 0 - One
       ELSE CHOOSE best \in sims : \A x \in sims : x <= best

\* the scores of a list of pairs do not increase
NonIncreasing(pairs) ==
    \A m, n \in 1..Len(pairs) : m < n => pairs[m][2] >= pairs[n][2]

\* C4 as stated: classify_image returns the pair (label, score) of every
\* category, score being the largest cosine similarity between the query and
\* an entry of the category, ordered by non-increasing score.
C4_EveryCategory ==
    (query # "" /\ encode_image(query) # None) =>
        /\ \A case_name \in Keys(embeddings) :
              \E n \in 1..Len(ret) :
                  ret[n] = <<case_name, BestScore(encode_image(query), case_name)>>
        /\ NonIncreasing(ret)

\* C4 as amended: classify_image(image, top_k) returns the first top_k pairs
\* (all of them when top_k is at least the number of categories) of the list
\* of the pairs (label, score) of every category ordered by non-increasing
\* score; score is the largest cosine similarity between the query and a
\* vector of the category, -1.0 for a category without vectors; the list is
\* empty when the image does not embed.
C4_TopKOfEveryCategory ==
    query # "" =>
        IF encode_image(query) = None THEN ret = <<>>
        ELSE LET embedding == encode_image(query)
                 returned == {ret[n][1] : n \in 1..Len(ret)}
             IN /\ Len(ret) = IF top_k < Len(embeddings) THEN top_k
                              ELSE Len(embeddings)
                /\ Cardinality(returned) = Len(ret)
                /\ \A n \in 1..Len(ret) :
                      /\ ret[n][1] \in Keys(embeddings)
                      /\ ret[n][2] = BestScore(embedding, ret[n][1])
                /\ NonIncreasing(ret)
                /\ \A case_name \in Keys(embeddings) \ returned :
                      \A n \in 1..Len(ret) :
                          BestScore(embedding, case_name) <= ret[n][2]

\* classify_image returned every category of a library of three, the first
\* one scored by the better of its two entries and not by the first entry
C4_Witness ==
    /\ query # ""
    /\ encode_image(query) # None
    /\ top_k >= 3
    /\ Len(ret) = 3
    /\ Len(Get(embeddings, ret[1][1])) = 2
    /\ ret[1][2] > compute_similarity(encode_image(query),
                                      Get(embeddings, ret[1][1])[1], "cosine")
    /\ ret[1][2] > ret[3][2]

\* the elements of a list
Range(lst) == {lst[n] : n \in 1..Len(lst)}

\* C21: when the vector of the query is the vector of an entry of a category
\* and no other category reaches the score 1.0, classify_image returns that
\* category first, with the score 1.0.
C21_IdenticalFirst ==
    (query # "" /\ encode_image(query) # None) =>
        \A case_name \in Keys(embeddings) :
            (/\ encode_image(query) \in Range(Get(embeddings, case_name))
             /\ \A other \in Keys(embeddings) \ {case_name} :
                    BestScore(encode_image(query), other) < One)
                => /\ ret # <<>>
                   /\ ret[1] = <<case_name, One>>

\* the query is the second entry of a category of a library of three
\* categories, and that category came first
C21_Witness ==
    /\ query = "a.png"
    /\ Len(embeddings) = 3
    /\ embeddings[1].v = <<encode_image("c.png"), encode_image("a.png")>>
    /\ ret # <<>>
    /\ ret[1] = <<embeddings[1].k, One>>

\* the categories whose score is the best score of the image
TopRanked(embedding) ==
    {case_name \in Keys(embeddings) :
        \A other \in Keys(embeddings) :
            BestScore(embedding, other) <= BestScore(embedding, case_name)}

\* C5: classify_images files an image under the unclassified label when it
\* does not embed or its best score is below the threshold, and otherwise
\* (best score >= threshold) under its top-ranked category.
C5_BucketByThreshold ==
    pc = "done" =>
        \A n \in 1..Len(image_paths) :
            LET image_path == image_paths[n]
                embedding == encode_image(image_path)
            IN IF \/ embedding = None
                  \/ embeddings = <<>>
                  \/ \A case_name \in Keys(embeddings) :
                        BestScore(embedding, case_name) < similarity_threshold
               THEN /\ Unclassified \in DOMAIN results
                    /\ image_path \in Range(results[Unclassified])
               ELSE \E case_name \in TopRanked(embedding) :
                       /\ case_name \in DOMAIN results
                       /\ image_path \in Range(results[case_name])

\* the number of times image_path occurs in the list
Occurrences(lst, image_path) ==
    Cardinality({n \in 1..Len(lst) : lst[n] = image_path})

\* the number of times image_path is listed in the buckets of the labels
RECURSIVE Listed(_, _)
Listed(labels, image_path) ==
    IF labels = {} THEN 0
    ELSE LET label == CHOOSE l \in labels : TRUE
         IN Occurrences(results[label], image_path)
                + Listed(labels \ {label}, image_path)

\* C27: the dict classify_images returns lists every image of the batch in
\* its buckets as many times as the batch holds it (so that the bucket sizes
\* sum to the size of the batch), and has no empty bucket.
C27_EveryItemInOneBucket ==
    pc = "done" =>
        /\ \A image_path \in Range(image_paths) :
               Listed(DOMAIN results, image_path)
                   = Occurrences(image_paths, image_path)
        /\ \A label \in DOMAIN results : results[label] # <<>>

(* ------------------ main() of image_case_classifier.py ------------------ *)
\* the order sorted() puts the image files in
SortedImages == <<"b.png", "d.png", "x.png">>

Rank(image_path) == CHOOSE n \in 1..Len(SortedImages) : SortedImages[n] = image_path

\* what collect_image_files returns: sorted, without duplicates (line 363)
ImageFiles ==
    {f \in SeqsUpTo(QueryImages, MaxQuery) :
        \A a, b \in 1..Len(f) : a < b => Rank(f[a]) < Rank(f[b])}

\* the command lines main() parses
Commands ==
    {[name |-> "add-case", case_name |-> c, image_path |-> p,
      image_files |-> <<>>, threshold |-> 0] : c \in CaseNames, p \in {"b.png", "x.png"}}
    \cup {[name |-> "remove-case", case_name |-> c, image_path |-> "",
           image_files |-> <<>>, threshold |-> 0] : c \in CaseNames}
    \cup {[name |-> "list-cases", case_name |-> "", image_path |-> "",
           image_files |-> <<>>, threshold |-> 0]}
    \cup {[name |-> "classify", case_name |-> "", image_path |-> "",
           image_files |-> f, threshold |-> t] : f \in ImageFiles, t \in {0, 20}}

\* the files at --library when a command starts
MainDocs ==
    { MissingFile,
      Truncated(<<>>),
      Document(<<>>),
      Document(<<[k |-> "home", v |-> [shape |-> "list", items |-> <<>>]]>>),
      Document(<<[k |-> "home", v |-> [shape |-> "list", items |-> <<Number>>]]>>),
      Document(<<[k |-> "home",
                  v |-> [shape |-> "object",
                         items |-> <<CaseInfo("a.png", encode_image("a.png"), "")>>]]>>),
      Document(<<[k |-> "home",
                  v |-> [shape |-> "list",
                         items |-> <<CaseInfo("a.png", encode_image("a.png"), ""),
                                     CaseInfo("c.png", None, "")>>]],
                 [k |-> "search",
                  v |-> [shape |-> "list",
                         items |-> <<CaseInfo("b.png", encode_image("b.png"), "")>>]]>>) }

\* the process at the entry of main(), the command line parsed
MainInit ==
    /\ \E file \in MainDocs :
           /\ disk = file
           /\ disk_before = file
    /\ cases = <<>>
    /\ embeddings = <<>>
    /\ last = NoCall
    /\ save_pc = "idle"
    /\ command \in Commands
    /\ exit_code = Running
    /\ NoClustering
    /\ NoClassification
    /\ NoTool

\* lines 424-425: case_library = CaseLibrary(library_path)
MainConstruct ==
    /\ exit_code = Running
    /\ last.op = "none"
    /\ Construct

\* the classify command has a library with a category and images to classify
ClassifyReady ==
    /\ command.name = "classify"
    /\ last.op = "construct"
    /\ pc = "idle"
    /\ Len(cases) # 0
    /\ Len(command.image_files) # 0

\* the rest of the state when main() exits
Exit(code) ==
    /\ exit_code' = code
    /\ UNCHANGED <<command, toolVars>>
    /\ UNCHANGED <<clusterVars, libraryVars, classifyVars>>

\* lines 429 and 476: ImageEmbedding(model_name) raises RuntimeError when the
\* model cannot be loaded; lines 492-496 print it and exit with 1
MainModelFails ==
    /\ exit_code = Running
    /\ \/ command.name = "add-case" /\ last.op = "construct"
       \/ ClassifyReady
    /\ Exit(1)

\* lines 430-435: add_case; what it returns is not looked at
MainAddCase ==
    /\ exit_code = Running
    /\ command.name = "add-case"
    /\ last.op = "construct"
    /\ AddCase(command.case_name, command.image_path, "")

\* line 440: remove_case(args.case_name)
MainRemoveCase ==
    /\ exit_code = Running
    /\ command.name = "remove-case"
    /\ last.op = "construct"
    /\ RemoveCase(command.case_name)

\* lines 436 and 441: save_library is about to be called
MainSaves ==
    /\ exit_code = Running
    /\ \/ command.name = "add-case" /\ last.op = "add_case"
       \/ /\ command.name = "remove-case"
          /\ last.op = "remove_case"
          /\ last.returned = "True"

MainSaveOpen == MainSaves /\ SaveOpen

MainSaveOpenFails == MainSaves /\ SaveOpenFails

\* save_library returned, True or False: main() falls off its end
MainSaved ==
    /\ exit_code = Running
    /\ last.op = "save_library"
    /\ last.returned \in {"True", "False"}
    /\ Exit(0)

\* lines 442-443: remove_case returned False, the error is printed
MainRemoveMissing ==
    /\ exit_code = Running
    /\ command.name = "remove-case"
    /\ last.op = "remove_case"
    /\ last.returned = "False"
    /\ Exit(0)

\* lines 445-459: list-cases; for a category without entries get_case_info
\* returns None and line 456 raises AttributeError, which exits with 1
MainListCases ==
    /\ exit_code = Running
    /\ command.name = "list-cases"
    /\ last.op = "construct"
    /\ IF \E n \in 1..Len(list_cases) : get_case_info(list_cases[n], FALSE, 0) = <<>>
       THEN Exit(1)
       ELSE Exit(0)

\* lines 463-465: classify on a library without category
MainClassifyEmptyLibrary ==
    /\ exit_code = Running
    /\ command.name = "classify"
    /\ last.op = "construct"
    /\ Len(cases) = 0
    /\ Exit(1)

\* the variant that returns from main() when no image file was found
MainClassifyNoImagesReturns ==
    /\ exit_code = Running
    /\ command.name = "classify"
    /\ last.op = "construct"
    /\ Len(cases) # 0
    /\ Len(command.image_files) = 0
    /\ Exit(0)

\* lines 468-471: no image file was found
MainClassifyNoImages ==
    /\ exit_code = Running
    /\ command.name = "classify"
    /\ last.op = "construct"
    /\ Len(cases) # 0
    /\ Len(command.image_files) = 0
    /\ Exit(1)

\* lines 476-480: the classifier is built and classify_images entered
MainClassifyStart ==
    /\ exit_code = Running
    /\ ClassifyReady
    /\ image_paths' = command.image_files
    /\ similarity_threshold' = command.threshold
    /\ i' = 0
    /\ pc' = "classify"
    /\ UNCHANGED <<cl_embeddings, valid_paths, clusters, cluster_id, assigned, j,
                   compared, reportVars, kmeansVars>>
    /\ UNCHANGED <<libraryVars, classifyVars, mainVars, toolVars>>

\* lines 483-490: the results are printed, no --output was given
MainClassified ==
    /\ exit_code = Running
    /\ command.name = "classify"
    /\ pc = "done"
    /\ Exit(0)

MainNext ==
    \/ MainConstruct
    \/ MainModelFails
    \/ MainAddCase
    \/ MainRemoveCase
    \/ MainSaveOpen
    \/ MainSaveOpenFails
    \/ SaveDump
    \/ SaveWriteFails
    \/ SaveClose
    \/ MainSaved
    \/ MainRemoveMissing
    \/ MainListCases
    \/ MainClassifyEmptyLibrary
    \/ MainClassifyNoImages
    \/ MainClassifyStart
    \/ ClassifyNext
    \/ ClassifyDone
    \/ MainClassified

SpecMain == MainInit /\ [][MainNext]_vars

(* ------------------------- properties of main() ------------------------- *)
\* json.load rejects the file, or the loading loop raises on one of its items
BadDocument(file) ==
    \/ file.state = "truncated"
    \/ file.state = "document" /\ LoadItems(file.body, 1, <<>>, <<>>).raised

\* C11: a command that found a bad library document has exited with a
\* non-zero status and has done nothing after the construction of the
\* library: no add_case, remove_case or save_library call, the file as it
\* was, no classification.
C11_BadDocumentAborts ==
    (exit_code # Running /\ BadDocument(disk_before)) =>
        /\ exit_code # 0
        /\ last.op = "construct"
        /\ disk = disk_before
        /\ pc = "idle"

\* the classify command has nothing to work on: no category in the library
\* it constructed, or no image file found
NothingToClassify ==
    /\ command.name = "classify"
    /\ last.op = "construct"
    /\ Len(cases) = 0 \/ Len(command.image_files) = 0

\* C22: the classify command that finds the library file missing, no
\* category in the library or no image file embeds and classifies no image
\* and exits with 1; the one whose classification ran to its end exits with 0.
C22_ClassifyExitCodes ==
    command.name = "classify" =>
        /\ (last.op = "construct" /\ disk.state = "missing") => Len(cases) = 0
        /\ NothingToClassify =>
               /\ exit_code \in {Running, 1}
               /\ pc = "idle"
               /\ query = ""
               /\ results = EmptyDict
               /\ unclassified = <<>>
        /\ pc = "done" => exit_code \in {Running, 0}
        /\ exit_code = 0 => pc = "done"

\* classify exited with 1 on a library with a category, no image file found
C22_Witness ==
    /\ command.name = "classify"
    /\ exit_code = 1
    /\ Len(cases) # 0
    /\ Len(command.image_files) = 0

(* --------------------- ImageCluster.cluster_images --------------------- *)
\* state of a call of cluster_images(image_paths, similarity_threshold) at entry
ClusterInit ==
    /\ image_paths \in SeqsUpTo(Images, MaxBatch)
    /\ similarity_threshold \in Thresholds
    /\ cl_embeddings = <<>>
    /\ valid_paths = <<>>
    /\ clusters = EmptyDict
    /\ cluster_id = 0
    /\ assigned = <<>>
    /\ i = 0
    /\ j = 0
    /\ compared = {}
    /\ pc = "encode"
    /\ NoKMeans
    /\ Constructed(MissingFile)
    /\ NoClassification
    /\ NoMain
    /\ NoTool

\* lines 53-59: one iteration of the embedding loop
EncodeNext ==
    /\ pc = "encode"
    /\ i < Len(image_paths)
    /\ LET embedding == encode_image(image_paths[i + 1])
       IN IF embedding # None
          THEN /\ cl_embeddings' = Append(cl_embeddings, embedding)
               /\ valid_paths' = Append(valid_paths, image_paths[i + 1])
               /\ UNCHANGED reported
          ELSE /\ reported' = Append(reported, image_paths[i + 1])
               /\ UNCHANGED <<cl_embeddings, valid_paths>>
    /\ i' = i + 1
    /\ UNCHANGED <<image_paths, similarity_threshold, clusters, cluster_id,
                   assigned, j, compared, pc>>
    /\ UNCHANGED <<libraryVars, classifyVars>>
    /\ UNCHANGED <<kmeansVars, mainVars, toolVars>>
    /\ UNCHANGED positions

\* lines 61-63: no embedding at all, return {}
EncodeEmpty ==
    /\ pc = "encode"
    /\ i = Len(image_paths)
    /\ Len(cl_embeddings) = 0
    /\ pc' = "done"
    /\ UNCHANGED <<image_paths, similarity_threshold, cl_embeddings, valid_paths,
                   clusters, cluster_id, assigned, i, j, compared>>
    /\ UNCHANGED <<libraryVars, classifyVars>>
    /\ UNCHANGED <<kmeansVars, mainVars, toolVars>>
    /\ UNCHANGED reportVars

\* lines 65-69 and 90-92: enter _cluster_by_similarity
ClusterStart ==
    /\ pc = "encode"
    /\ i = Len(image_paths)
    /\ Len(cl_embeddings) # 0
    /\ clusters' = EmptyDict
    /\ cluster_id' = 0
    /\ assigned' = [k \in 1..Len(cl_embeddings) |-> FALSE]
    /\ i' = 0
    /\ pc' = "outer"
    /\ compared' = {}
    /\ positions' = EmptyDict
    /\ UNCHANGED <<image_paths, similarity_threshold, cl_embeddings, valid_paths, j>>
    /\ UNCHANGED <<libraryVars, classifyVars>>
    /\ UNCHANGED <<kmeansVars, mainVars, toolVars>>
    /\ UNCHANGED reported

\* the chained variant: cand is compared with the latest member of the cluster
JoinsLatest(seed, cand) ==
    LET members == clusters[cluster_id]
    IN compute_similarity(encode_image(members[Len(members)]),
                          cl_embeddings[cand + 1], "cosine") >= similarity_threshold

\* the strict variant: a similarity equal to the threshold does not join
JoinsStrict(seed, cand) ==
    compute_similarity(cl_embeddings[seed + 1], cl_embeddings[cand + 1], "cosine")
        > similarity_threshold

\* lines 108-113: item cand joins the cluster of seed
Joins(seed, cand) ==
    compute_similarity(cl_embeddings[seed + 1], cl_embeddings[cand + 1], "cosine")
        >= similarity_threshold

\* lines 94-100: the outer loop skips an assigned item or opens a new cluster
OuterNext ==
    /\ pc = "outer"
    /\ i < Len(cl_embeddings)
    /\ IF assigned[i + 1]
       THEN /\ i' = i + 1
            /\ UNCHANGED <<clusters, positions, assigned, j, pc>>
       ELSE /\ clusters' = (cluster_id :> <<valid_paths[i + 1]>>) @@ clusters
            /\ positions' = (cluster_id :> <<i>>) @@ positions
            /\ assigned' = [assigned EXCEPT ![i + 1] = TRUE]
            /\ j' = i + 1
            /\ pc' = "inner"
            /\ UNCHANGED i
    /\ UNCHANGED <<image_paths, similarity_threshold, cl_embeddings, valid_paths,
                   cluster_id, compared>>
    /\ UNCHANGED <<libraryVars, classifyVars>>
    /\ UNCHANGED <<kmeansVars, mainVars, toolVars>>
    /\ UNCHANGED reported

\* the variant that lets an item join without marking it assigned
InnerNextUnmarked ==
    /\ pc = "inner"
    /\ j < Len(cl_embeddings)
    /\ IF assigned[j + 1]
       THEN UNCHANGED <<clusters, positions, assigned, compared>>
       ELSE /\ compared' = compared \cup {<<i, j>>}
            /\ IF Joins(i, j)
               THEN /\ clusters' = [clusters EXCEPT
                                       ![cluster_id] = Append(@, valid_paths[j + 1])]
                    /\ positions' = [positions EXCEPT ![cluster_id] = Append(@, j)]
                    /\ UNCHANGED assigned
               ELSE UNCHANGED <<clusters, positions, assigned>>
    /\ j' = j + 1
    /\ UNCHANGED <<image_paths, similarity_threshold, cl_embeddings, valid_paths,
                   cluster_id, i, pc>>
    /\ UNCHANGED <<libraryVars, classifyVars>>
    /\ UNCHANGED <<kmeansVars, mainVars, toolVars>>
    /\ UNCHANGED reported

\* lines 103-115: one iteration of the inner loop
InnerNext ==
    /\ pc = "inner"
    /\ j < Len(cl_embeddings)
    /\ IF assigned[j + 1]
       THEN UNCHANGED <<clusters, positions, assigned, compared>>
       ELSE /\ compared' = compared \cup {<<i, j>>}
            /\ IF Joins(i, j)
               THEN /\ clusters' = [clusters EXCEPT
                                       ![cluster_id] = Append(@, valid_paths[j + 1])]
                    /\ positions' = [positions EXCEPT ![cluster_id] = Append(@, j)]
                    /\ assigned' = [assigned EXCEPT ![j + 1] = TRUE]
               ELSE UNCHANGED <<clusters, positions, assigned>>
    /\ j' = j + 1
    /\ UNCHANGED <<image_paths, similarity_threshold, cl_embeddings, valid_paths,
                   cluster_id, i, pc>>
    /\ UNCHANGED <<libraryVars, classifyVars>>
    /\ UNCHANGED <<kmeansVars, mainVars, toolVars>>
    /\ UNCHANGED reported

\* the variant that numbers the clusters by twos
InnerDoneSkip ==
    /\ pc = "inner"
    /\ j = Len(cl_embeddings)
    /\ cluster_id' = cluster_id + 2
    /\ i' = i + 1
    /\ pc' = "outer"
    /\ UNCHANGED <<image_paths, similarity_threshold, cl_embeddings, valid_paths,
                   clusters, assigned, j, compared>>
    /\ UNCHANGED <<libraryVars, classifyVars>>
    /\ UNCHANGED <<kmeansVars, mainVars, toolVars>>
    /\ UNCHANGED reportVars

\* line 117: the inner loop is over, cluster_id += 1
InnerDone ==
    /\ pc = "inner"
    /\ j = Len(cl_embeddings)
    /\ cluster_id' = cluster_id + 1
    /\ i' = i + 1
    /\ pc' = "outer"
    /\ UNCHANGED <<image_paths, similarity_threshold, cl_embeddings, valid_paths,
                   clusters, assigned, j, compared>>
    /\ UNCHANGED <<libraryVars, classifyVars>>
    /\ UNCHANGED <<kmeansVars, mainVars, toolVars>>
    /\ UNCHANGED reportVars

\* line 119: return clusters
OuterDone ==
    /\ pc = "outer"
    /\ i = Len(cl_embeddings)
    /\ pc' = "done"
    /\ UNCHANGED <<image_paths, similarity_threshold, cl_embeddings, valid_paths,
                   clusters, cluster_id, assigned, i, j, compared>>
    /\ UNCHANGED <<libraryVars, classifyVars>>
    /\ UNCHANGED <<kmeansVars, mainVars, toolVars>>
    /\ UNCHANGED reportVars

ClusterNext ==
    \/ EncodeNext
    \/ EncodeEmpty
    \/ ClusterStart
    \/ OuterNext
    \/ InnerNext
    \/ InnerDone
    \/ OuterDone

SpecCluster == ClusterInit /\ [][ClusterNext]_vars

(* ------------------- properties of the greedy clustering ---------------- *)
\* cosine similarity of two image paths that embed
Sim(p, q) == compute_similarity(encode_image(p), encode_image(q), "cosine")

\* C1: in the mapping built by the greedy clustering, at every point of the
\* run and in the returned mapping, every member of a cluster other than the
\* first one has cosine similarity >= threshold with the first (seed) member.
C1_SeedSimilarity ==
    \A k \in DOMAIN clusters :
        \A m \in 2..Len(clusters[k]) :
            Sim(clusters[k][1], clusters[k][m]) >= similarity_threshold

\* a returned cluster holds two non-seed members whose similarity is below
\* the threshold: only the similarity with the seed is guaranteed
C1_Witness ==
    /\ pc = "done"
    /\ \E k \in DOMAIN clusters :
          \E m, n \in 2..Len(clusters[k]) :
              /\ m # n
              /\ Sim(clusters[k][1], clusters[k][m]) >= similarity_threshold
              /\ Sim(clusters[k][m], clusters[k][n]) < similarity_threshold

\* the batch is three embedded items A, B, C with sim(A,B) >= t, sim(B,C) >= t
\* and sim(A,C) < t
ChainBatch ==
    /\ Len(image_paths) = 3
    /\ valid_paths = image_paths
    /\ Sim(valid_paths[1], valid_paths[2]) >= similarity_threshold
    /\ Sim(valid_paths[2], valid_paths[3]) >= similarity_threshold
    /\ Sim(valid_paths[1], valid_paths[3]) < similarity_threshold

\* C2: for three items A, B, C in that order with sim(A,B) >= t, sim(B,C) >= t
\* and sim(A,C) < t the result is exactly {0: [A, B], 1: [C]}, and C was
\* compared with the seed A and never with B.
C2_ChainNotMerged ==
    (pc = "done" /\ ChainBatch) =>
        /\ clusters = (0 :> <<valid_paths[1], valid_paths[2]>>)
                          @@ (1 :> <<valid_paths[3]>>)
        /\ <<0, 2>> \in compared
        /\ <<1, 2>> \notin compared

C2_Witness ==
    /\ pc = "done"
    /\ ChainBatch
    /\ DOMAIN clusters = {0, 1}
    /\ clusters[1] = <<valid_paths[3]>>

\* position p (1-based) of valid_paths opens a cluster: no earlier seed is
\* >= threshold similar to it
RECURSIVE IsSeed(_)
IsSeed(p) ==
    \A s \in 1..(p - 1) :
        IsSeed(s) => Sim(valid_paths[s], valid_paths[p]) < similarity_threshold

\* the earliest seed that position p is >= threshold similar to (p if none)
SeedOf(p) ==
    IF IsSeed(p) THEN p
    ELSE CHOOSE s \in 1..(p - 1) :
            /\ IsSeed(s)
            /\ Sim(valid_paths[s], valid_paths[p]) >= similarity_threshold
            /\ \A r \in 1..(s - 1) :
                  IsSeed(r) =>
                      Sim(valid_paths[r], valid_paths[p]) < similarity_threshold

\* the subsequence of 1..n of the positions in S, in increasing order
RECURSIVE Ascending(_, _)
Ascending(S, n) ==
    IF n = 0 THEN <<>>
    ELSE IF n \in S THEN Append(Ascending(S, n - 1), n) ELSE Ascending(S, n - 1)

\* the clusters by the earliest-seed rule: cluster k is led by the k-th seed
EarliestSeedClusters ==
    LET n == Len(valid_paths)
        seeds == Ascending({p \in 1..n : IsSeed(p)}, n)
    IN [k \in 0..(Len(seeds) - 1) |->
           LET members == Ascending({p \in 1..n : SeedOf(p) = seeds[k + 1]}, n)
           IN [m \in 1..Len(members) |-> valid_paths[members[m]]]]

\* C3: every item is placed in the cluster of the earliest seed it is
\* >= threshold similar to and opens a new cluster exactly when there is no
\* such seed; two items form one cluster when their similarity is >= threshold
\* and two clusters when it is below; any two seeds have similarity < threshold.
C3_EarliestSeed ==
    (pc = "done" /\ Len(valid_paths) > 0) =>
        /\ clusters = EarliestSeedClusters
        /\ \A k, l \in DOMAIN clusters :
              k # l => Sim(clusters[k][1], clusters[l][1]) < similarity_threshold
        /\ Len(valid_paths) = 2 =>
              IF Sim(valid_paths[1], valid_paths[2]) >= similarity_threshold
              THEN clusters = (0 :> <<valid_paths[1], valid_paths[2]>>)
              ELSE clusters = (0 :> <<valid_paths[1]>>) @@ (1 :> <<valid_paths[2]>>)

\* a finished run in which an item joined the second seed although it is
\* positioned after both seeds, at a similarity equal to the threshold
C3_Witness ==
    /\ pc = "done"
    /\ Len(valid_paths) >= 3
    /\ \E p \in 3..Len(valid_paths) :
          /\ ~IsSeed(p)
          /\ SeedOf(p) > 1
          /\ Sim(valid_paths[SeedOf(p)], valid_paths[p]) = similarity_threshold
    /\ Len(clusters[1]) >= 2

\* C18: the keys of the mapping of the greedy clustering are 0..n-1, the
\* seed of cluster k comes before the seed of cluster k+1 in the input, and
\* the members of a cluster are listed in input order, its seed first.
C18_KeysAndOrder ==
    /\ DOMAIN clusters = 0..(Cardinality(DOMAIN clusters) - 1)
    /\ DOMAIN positions = DOMAIN clusters
    /\ \A k \in DOMAIN clusters :
           /\ Len(positions[k]) = Len(clusters[k])
           /\ \A m \in 1..Len(clusters[k]) :
                  clusters[k][m] = valid_paths[positions[k][m] + 1]
           /\ \A m \in 1..(Len(positions[k]) - 1) :
                  positions[k][m] < positions[k][m + 1]
           /\ (k + 1) \in DOMAIN clusters => positions[k][1] < positions[k + 1][1]

\* the clustering returned three clusters, the first of which has a member
\* that comes after the seed of the second in the input
C18_Witness ==
    /\ pc = "done"
    /\ Cardinality(DOMAIN clusters) = 3
    /\ Len(positions[0]) >= 2
    /\ positions[0][2] > positions[1][1]

\* the places <<cluster, rank>> of the clusters
Slots ==
    UNION {{<<k, m>> : m \in 1..Len(positions[k])} : k \in DOMAIN positions}

\* the places that hold the embedded item at position p
SlotsOf(p) == {slot \in Slots : positions[slot[1]][slot[2]] = p}

\* every cluster has a member, and its paths are those of the embedded items
\* at its positions; an item marked assigned has one place in the clusters
\* and an unmarked one has none; the returned clusters hold every embedded
\* item, so that their sizes sum to the number of embedded items
Partition ==
    /\ DOMAIN positions = DOMAIN clusters
    /\ \A k \in DOMAIN clusters :
           /\ Len(clusters[k]) >= 1
           /\ Len(positions[k]) = Len(clusters[k])
           /\ \A m \in 1..Len(clusters[k]) :
                  clusters[k][m] = valid_paths[positions[k][m] + 1]
    /\ \A p \in 1..Len(assigned) :
           Cardinality(SlotsOf(p - 1)) = IF assigned[p] THEN 1 ELSE 0
    /\ pc = "done" =>
           /\ \A p \in 1..Len(assigned) : assigned[p]
           /\ Cardinality(Slots) = Len(cl_embeddings)

\* an item marked assigned stays marked and keeps its place
NeverReassigned ==
    \A p \in 1..Len(assigned) :
        assigned[p] => /\ assigned'[p]
                       /\ SlotsOf(p - 1)' = SlotsOf(p - 1)

\* C28: the greedy clustering is a partition of the embedded items: at every
\* point of the run an item marked assigned is in exactly one cluster, once
\* per occurrence in the input, and is never moved; no cluster is empty; the
\* returned clusters hold every embedded item exactly once.
C28_Partition == []Partition /\ [][NeverReassigned]_vars

\* two clusters were returned for a batch with an image that does not embed
\* and an image given twice, both occurrences of which are in one cluster
C28_Witness ==
    /\ pc = "done"
    /\ Cardinality(DOMAIN clusters) = 2
    /\ Len(valid_paths) < Len(image_paths)
    /\ \E k \in DOMAIN clusters :
           /\ Len(clusters[k]) = 2
           /\ clusters[k][1] = clusters[k][2]

(* -------------------- ImageCluster.cluster_by_kmeans ------------------- *)
\* line 158: at least this many images per cluster
ImagesPerCluster == 3

\* line 158: at most this many clusters
MostClusters == 10

\* most embedded images the choice of the number of clusters is checked for
MaxEmbedded == 36

Min(a, b) == IF a < b THEN a ELSE b

Max(a, b) == IF a > b THEN a ELSE b

\* the variant without the upper limit on the number of clusters
SelectClustersUncapped(argument, count) ==
    IF argument = None
    THEN Max(1, count \div ImagesPerCluster)
    ELSE argument[1]

\* the variant that rounds the number of clusters up
SelectClustersRoundUp(argument, count) ==
    IF argument = None
    THEN Max(1, Min((count + ImagesPerCluster - 1) \div ImagesPerCluster, MostClusters))
    ELSE argument[1]

\* lines 156-159: the number of clusters for count embedded images; argument
\* is the n_clusters passed, None or <<n>>
SelectClusters(argument, count) ==
    IF argument = None
    THEN Max(1, Min(count \div ImagesPerCluster, MostClusters))
    ELSE argument[1]

\* the images a batch handed to cluster_by_kmeans is made of
KMeansImages == {"a.png", "c.png", "x.png"}

\* the n_clusters a caller passes: the default None, or a number
KMeansArguments == {None, <<1>>, <<2>>, <<3>>}

\* state of a call of cluster_by_kmeans(image_paths, n_clusters) at entry
KMeansInit ==
    /\ image_paths \in SeqsUpTo(KMeansImages, MaxBatch)
    /\ n_clusters \in KMeansArguments
    /\ similarity_threshold = 0
    /\ cl_embeddings = <<>>
    /\ valid_paths = <<>>
    /\ clusters = EmptyDict
    /\ cluster_id = 0
    /\ assigned = <<>>
    /\ i = 0
    /\ j = 0
    /\ compared = {}
    /\ pc = "kmeans_encode"
    /\ reported = <<>>
    /\ positions = EmptyDict
    /\ kmeans_n_clusters = 0
    /\ Constructed(MissingFile)
    /\ NoClassification
    /\ NoMain
    /\ NoTool

\* what a step of cluster_by_kmeans leaves alone
KMeansFrame ==
    /\ UNCHANGED <<image_paths, similarity_threshold, cluster_id, assigned, j,
                   compared, reported, n_clusters>>
    /\ UNCHANGED <<libraryVars, classifyVars, mainVars, toolVars>>

\* lines 132-136: sklearn is not installed, return {}
KMeansImportFails ==
    /\ pc = "kmeans_encode"
    /\ i = 0
    /\ pc' = "done"
    /\ UNCHANGED <<cl_embeddings, valid_paths, clusters, positions, i,
                   kmeans_n_clusters>>
    /\ KMeansFrame

\* lines 143-147: one iteration of the embedding loop; nothing is printed
\* for an image that does not embed
KMeansEncodeNext ==
    /\ pc = "kmeans_encode"
    /\ i < Len(image_paths)
    /\ LET embedding == encode_image(image_paths[i + 1])
       IN IF embedding # None
          THEN /\ cl_embeddings' = Append(cl_embeddings, embedding)
               /\ valid_paths' = Append(valid_paths, image_paths[i + 1])
          ELSE UNCHANGED <<cl_embeddings, valid_paths>>
    /\ i' = i + 1
    /\ UNCHANGED <<clusters, positions, pc, kmeans_n_clusters>>
    /\ KMeansFrame

\* the variant that goes on to KMeans without any embedding
KMeansEncodeEmptyFits ==
    /\ pc = "kmeans_encode"
    /\ i = Len(image_paths)
    /\ Len(cl_embeddings) = 0
    /\ kmeans_n_clusters' = SelectClusters(n_clusters, Len(cl_embeddings))
    /\ pc' = "kmeans_fit"
    /\ UNCHANGED <<cl_embeddings, valid_paths, clusters, positions, i>>
    /\ KMeansFrame

\* lines 149-151: no embedding at all, return {}
KMeansEncodeEmpty ==
    /\ pc = "kmeans_encode"
    /\ i = Len(image_paths)
    /\ Len(cl_embeddings) = 0
    /\ pc' = "done"
    /\ UNCHANGED <<cl_embeddings, valid_paths, clusters, positions, i,
                   kmeans_n_clusters>>
    /\ KMeansFrame

\* lines 153-164: the number of clusters is chosen and the KMeans object built
KMeansSelect ==
    /\ pc = "kmeans_encode"
    /\ i = Len(image_paths)
    /\ Len(cl_embeddings) # 0
    /\ kmeans_n_clusters' = SelectClusters(n_clusters, Len(cl_embeddings))
    /\ pc' = "kmeans_fit"
    /\ UNCHANGED <<cl_embeddings, valid_paths, clusters, positions, i>>
    /\ KMeansFrame

\* line 165: fit_predict raises ValueError for more clusters than samples
KMeansFitRaises ==
    /\ pc = "kmeans_fit"
    /\ kmeans_n_clusters > Len(cl_embeddings)
    /\ pc' = "raised"
    /\ UNCHANGED <<cl_embeddings, valid_paths, clusters, positions, i,
                   kmeans_n_clusters>>
    /\ KMeansFrame

\* the indexes 1..Len(labels) that carry the label, in increasing order
Labelled(labels, label) ==
    Ascending({n \in 1..Len(labels) : labels[n] = label}, Len(labels))

\* lines 165-172: fit_predict gives every embedding a label in
\* 0..n_clusters-1; the paths are grouped by label, in input order
KMeansFit(labels) ==
    /\ pc = "kmeans_fit"
    /\ kmeans_n_clusters <= Len(cl_embeddings)
    /\ clusters' = [label \in Range(labels) |->
                       [m \in 1..Len(Labelled(labels, label)) |->
                           valid_paths[Labelled(labels, label)[m]]]]
    /\ positions' = [label \in Range(labels) |->
                        [m \in 1..Len(Labelled(labels, label)) |->
                            Labelled(labels, label)[m] - 1]]
    /\ pc' = "done"
    /\ UNCHANGED <<cl_embeddings, valid_paths, i, kmeans_n_clusters>>
    /\ KMeansFrame

KMeansNext ==
    \/ KMeansImportFails
    \/ KMeansEncodeNext
    \/ KMeansEncodeEmpty
    \/ KMeansSelect
    \/ KMeansFitRaises
    \/ \E labels \in [1..Len(cl_embeddings) -> 0..(kmeans_n_clusters - 1)] :
          KMeansFit(labels)

\* a call of either clustering method
ClusteringInit == ClusterInit \/ KMeansInit

ClusteringNext == ClusterNext \/ KMeansNext

SpecClustering == ClusteringInit /\ [][ClusteringNext]_vars

\* cluster_by_kmeans after its embedding loop, every image of the batch
\* embedded: the batch is count times the same image
SelectInit ==
    /\ \E count \in 1..MaxEmbedded :
           /\ image_paths = [n \in 1..count |-> "a.png"]
           /\ valid_paths = [n \in 1..count |-> "a.png"]
           /\ cl_embeddings = [n \in 1..count |-> encode_image("a.png")]
           /\ i = count
    /\ n_clusters \in KMeansArguments
    /\ similarity_threshold = 0
    /\ clusters = EmptyDict
    /\ cluster_id = 0
    /\ assigned = <<>>
    /\ j = 0
    /\ compared = {}
    /\ pc = "kmeans_encode"
    /\ reported = <<>>
    /\ positions = EmptyDict
    /\ kmeans_n_clusters = 0
    /\ Constructed(MissingFile)
    /\ NoClassification
    /\ NoMain
    /\ NoTool

\* lines 153-164 for every number of embedded images up to MaxEmbedded
SpecSelect == SelectInit /\ [][KMeansSelect]_vars

(* ---------------------- properties of the clustering -------------------- *)
\* the images of the batch that do not embed, in input order
Failed == SelectSeq(image_paths, LAMBDA image_path : encode_image(image_path) = None)

\* the call has returned after its embedding loop went through the batch
Returned ==
    /\ pc = "done"
    /\ i = Len(image_paths) \/ valid_paths # <<>>

\* C16: when either clustering method has returned, no image whose
\* embedding failed is in a cluster or was compared, and every such image
\* was reported as failed.
C16_FailedExcludedAndReported ==
    Returned =>
        /\ \A k \in DOMAIN clusters : \A m \in 1..Len(clusters[k]) :
               encode_image(clusters[k][m]) # None
        /\ \A pair \in compared :
               /\ encode_image(valid_paths[pair[1] + 1]) # None
               /\ encode_image(valid_paths[pair[2] + 1]) # None
        /\ reported = Failed

\* C17: when no image of the batch embeds, the empty batch included, either
\* clustering method goes from its embedding loop straight to its return:
\* no KMeans object is built, nothing is raised, the mapping is empty.
C17_NothingEmbedsEmpty ==
    Len(Failed) = Len(image_paths) =>
        /\ pc \in {"encode", "kmeans_encode", "done"}
        /\ clusters = EmptyDict
        /\ kmeans_n_clusters = 0

\* cluster_by_kmeans was called with n_clusters given on a batch of two
\* images that do not embed, and has returned
C17_Witness ==
    /\ pc = "done"
    /\ i = Len(image_paths)
    /\ n_clusters # None
    /\ Len(image_paths) >= 2
    /\ Len(Failed) = Len(image_paths)
    /\ clusters = EmptyDict

\* C19: the KMeans object is built with max(1, min(count // 3, 10)) clusters
\* when n_clusters is None, count being the number of embedded images, and
\* with n_clusters itself when it is given.
C19_ClusterCount ==
    pc = "kmeans_fit" =>
        LET count == Len(cl_embeddings)
        IN IF n_clusters = None
           THEN kmeans_n_clusters = Max(1, Min(count \div 3, 10))
           ELSE kmeans_n_clusters = n_clusters[1]

\* more than thirty images were embedded and ten clusters chosen
C19_Witness ==
    /\ pc = "kmeans_fit"
    /\ n_clusters = None
    /\ Len(cl_embeddings) > 30
    /\ kmeans_n_clusters = 10

Vectors == {encode_image(image_path) : image_path \in Images} \ {None}

\* the method names of lines 345-351
SupportedMethods == {"cosine", "euclidean", "dot"}

\* the method names a caller passes: the three of the code and three others
MethodNames == SupportedMethods \cup {"manhattan", "Cosine", ""}

\* two vectors, no call made yet
SimilarityInit ==
    /\ embedding1 \in Vectors
    /\ embedding2 \in Vectors
    /\ method = ""
    /\ outcome = NoOutcome
    /\ NoCsv
    /\ NoEncode
    /\ NoClustering
    /\ Constructed(MissingFile)
    /\ NoClassification
    /\ NoMain

\* the variant that computes the difference of line 350 in place
ComputeSimilarityInPlace(name) ==
    /\ method' = name
    /\ outcome' = IF name \in SupportedMethods
                  THEN Returns(compute_similarity(embedding1, embedding2, name))
                  ELSE Raises(compute_similarity(embedding1, embedding2, name))
    /\ embedding1' = IF name = "euclidean"
                     THEN <<embedding1[1] - embedding2[1],
                            embedding1[2] - embedding2[2]>>
                     ELSE embedding1
    /\ UNCHANGED embedding2
    /\ UNCHANGED <<clusterVars, libraryVars, classifyVars, mainVars, csvVars, encodeVars>>

\* lines 333-355: compute_similarity(embedding1, embedding2, name) returns
\* the float of lines 347-353 or raises the ValueError of line 355
ComputeSimilarity(name) ==
    /\ method' = name
    /\ outcome' = IF name \in SupportedMethods
                  THEN Returns(compute_similarity(embedding1, embedding2, name))
                  ELSE Raises(compute_similarity(embedding1, embedding2, name))
    /\ UNCHANGED <<embedding1, embedding2>>
    /\ UNCHANGED <<clusterVars, libraryVars, classifyVars, mainVars, csvVars, encodeVars>>

SimilarityNext == \E name \in MethodNames : ComputeSimilarity(name)

SpecSimilarity == SimilarityInit /\ [][SimilarityNext]_vars

\* C23: a call of compute_similarity with a method name other than cosine,
\* euclidean and dot raises ValueError and returns no value; a call with one
\* of the three returns a value and raises nothing; every call leaves both
\* vectors and the rest of the state as they were.
C23_UnsupportedMethodRaises ==
    [][/\ method' \notin SupportedMethods => outcome' = Raises("ValueError")
       /\ method' \in SupportedMethods =>
              /\ outcome'.raised = ""
              /\ Len(outcome'.value) = 1
       /\ UNCHANGED <<embedding1, embedding2>>
       /\ UNCHANGED <<clusterVars, libraryVars, classifyVars, mainVars, csvVars, encodeVars>>]_vars

\* two different vectors were compared by a method the code does not have
C23_Witness ==
    /\ method = "manhattan"
    /\ outcome = Raises("ValueError")
    /\ embedding1 # embedding2

(* ------------------------------ CSVReader ------------------------------- *)
\* the most physical lines a file has after its header line
MaxLines == 4

\* the largest chunk_size read_chunks is called with
MaxChunkSize == 3

\* A physical line of a file.  A cell is the list of the text lines of a
\* field: one for a plain field, more for a quoted field with line breaks.
Plain(cells) == [kind |-> "plain", cells |-> cells]

\* an empty line
Blank == [kind |-> "blank", cells |-> <<>>]

\* the header line name,age
Header == [kind |-> "plain", cells |-> <<"name", "age">>]

\* the lines that are a record, or no record, by themselves
SingleLines ==
    {Plain(<<<<"Alice">>, <<"30">>>>), Plain(<<<<"Bob">>, <<"25">>>>), Blank}

\* a record whose last field is quoted and holds a line break: the line
\* that opens the quote and the line that closes it
QuotedRecord ==
    << [kind |-> "open", cells |-> <<<<"Carol">>, <<"first">>>>],
       [kind |-> "close", cells |-> <<<<"second">>>>] >>

\* the line sequences of at most n lines that follow a header
RECURSIVE Bodies(_)
Bodies(n) ==
    IF n = 0 THEN {<<>>}
    ELSE LET shorter == Bodies(n - 1)
         IN shorter
            \cup {body \o <<line>> :
                     body \in {b \in shorter : Len(b) = n - 1}, line \in SingleLines}
            \cup {body \o QuotedRecord : body \in {b \in shorter : Len(b) = n - 2}}

\* the files a CSVReader is constructed on: an empty file, or a header line
\* followed by at most MaxLines lines
CsvFiles == {<<>>} \cup {<<Header>> \o body : body \in Bodies(MaxLines)}

\* csv.reader and the loop of DictReader.__next__: the next record of the
\* file after pos lines, with the rows that are [] skipped and the lines of
\* a quoted field joined; pos is the number of lines taken when it returns
RECURSIVE NextRecord(_, _)
NextRecord(lines, pos) ==
    IF pos >= Len(lines) THEN [found |-> FALSE, cells |-> <<>>, pos |-> Len(lines)]
    ELSE LET line == lines[pos + 1]
         IN CASE line.kind = "blank" -> NextRecord(lines, pos + 1)
              [] line.kind = "open" ->
                    [found |-> TRUE,
                     cells |-> <<line.cells[1],
                                 line.cells[2] \o lines[pos + 2].cells[1]>>,
                     pos |-> pos + 2]
              [] OTHER -> [found |-> TRUE, cells |-> line.cells, pos |-> pos + 1]

\* DictReader.fieldnames: the first line of the file
FieldNames(lines) == IF lines = <<>> THEN <<>> ELSE lines[1].cells

\* the dict DictReader makes of a record
Row(fieldnames, cells) ==
    [field \in {fieldnames[n] : n \in 1..Len(fieldnames)} |->
        cells[CHOOSE n \in 1..Len(fieldnames) : fieldnames[n] = field]]

\* list(reader) once pos lines are taken
RECURSIVE RowsFrom(_, _)
RowsFrom(lines, pos) ==
    LET record == NextRecord(lines, pos)
    IN IF record.found
       THEN <<Row(FieldNames(lines), record.cells)>> \o RowsFrom(lines, record.pos)
       ELSE <<>>

\* CSVReader.read_all (lines 40-44)
read_all(lines) == IF lines = <<>> THEN <<>> ELSE RowsFrom(lines, 1)

\* CSVReader.get_row_count (lines 96-97): sum(1 for _ in f) - 1
get_row_count(lines) == Len(lines) - 1

\* a CSVReader on one of the files, read_chunks(chunk_size) just called
CsvInit ==
    /\ csv_file \in CsvFiles
    /\ chunk_size \in 1..MaxChunkSize
    /\ consumed = 0
    /\ chunk = <<>>
    /\ chunks = <<>>
    /\ csv_pc = "start"
    /\ data = None
    /\ row_count = None
    /\ NoSimilarity
    /\ NoEncode
    /\ NoClustering
    /\ Constructed(MissingFile)
    /\ NoClassification
    /\ NoMain

\* what a step of the CSVReader leaves alone
CsvFrame ==
    /\ UNCHANGED <<csv_file, chunk_size>>
    /\ UNCHANGED <<clusterVars, libraryVars, classifyVars, mainVars, similarityVars,
                   encodeVars>>

\* lines 68-69 and 53-54: the generator starts, the DictReader takes the
\* header line
ReadChunksStart ==
    /\ csv_pc = "start"
    /\ consumed' = IF csv_file = <<>> THEN 0 ELSE 1
    /\ csv_pc' = "rows"
    /\ UNCHANGED <<chunk, chunks, data, row_count>>
    /\ CsvFrame

\* the variant that yields a chunk once it has more than chunk_size rows
ReadChunksNextStrict ==
    /\ csv_pc = "rows"
    /\ LET record == NextRecord(csv_file, consumed)
           appended == Append(chunk, Row(FieldNames(csv_file), record.cells))
       IN /\ record.found
          /\ consumed' = record.pos
          /\ IF Len(appended) > chunk_size
             THEN /\ chunks' = Append(chunks, appended)
                  /\ chunk' = <<>>
             ELSE /\ chunk' = appended
                  /\ UNCHANGED chunks
    /\ UNCHANGED <<csv_pc, data, row_count>>
    /\ CsvFrame

\* lines 69-73: one iteration of the loop of read_chunks
ReadChunksNext ==
    /\ csv_pc = "rows"
    /\ LET record == NextRecord(csv_file, consumed)
           appended == Append(chunk, Row(FieldNames(csv_file), record.cells))
       IN /\ record.found
          /\ consumed' = record.pos
          /\ IF Len(appended) >= chunk_size
             THEN /\ chunks' = Append(chunks, appended)
                  /\ chunk' = <<>>
             ELSE /\ chunk' = appended
                  /\ UNCHANGED chunks
    /\ UNCHANGED <<csv_pc, data, row_count>>
    /\ CsvFrame

\* lines 74-75: the iterator is exhausted, the rows left over are yielded
ReadChunksEnd ==
    /\ csv_pc = "rows"
    /\ LET record == NextRecord(csv_file, consumed)
       IN /\ ~record.found
          /\ consumed' = record.pos
    /\ chunks' = IF chunk # <<>> THEN Append(chunks, chunk) ELSE chunks
    /\ csv_pc' = "done"
    /\ UNCHANGED <<chunk, data, row_count>>
    /\ CsvFrame

\* a call of read_all on the same reader
ReadAll ==
    /\ csv_pc = "done"
    /\ data = None
    /\ data' = <<read_all(csv_file)>>
    /\ UNCHANGED <<consumed, chunk, chunks, csv_pc, row_count>>
    /\ CsvFrame

\* a call of get_row_count on the same reader
GetRowCount ==
    /\ csv_pc = "done"
    /\ row_count = None
    /\ row_count' = <<get_row_count(csv_file)>>
    /\ UNCHANGED <<consumed, chunk, chunks, csv_pc, data>>
    /\ CsvFrame

CsvNext ==
    \/ ReadChunksStart
    \/ ReadChunksNext
    \/ ReadChunksEnd
    \/ ReadAll
    \/ GetRowCount

SpecCsv == CsvInit /\ [][CsvNext]_vars

\* the rows of the chunks, in order
RECURSIVE Concatenation(_)
Concatenation(lists) ==
    IF lists = <<>> THEN <<>> ELSE Head(lists) \o Concatenation(Tail(lists))

\* ceil(n / size)
CeilDiv(n, size) == (n + size - 1) \div size

\* C24: read_chunks on a file of n data rows yields ceil(n / chunk_size)
\* chunks; every chunk but the last has chunk_size rows, the last has
\* 1..chunk_size rows, none is empty, and the chunks put end to end are the
\* rows of read_all.
C24_ChunksCoverRows ==
    csv_pc = "done" =>
        LET rows == read_all(csv_file)
        IN /\ Len(chunks) = CeilDiv(Len(rows), chunk_size)
           /\ \A k \in 1..(Len(chunks) - 1) : Len(chunks[k]) = chunk_size
           /\ chunks # <<>> => Len(chunks[Len(chunks)]) \in 1..chunk_size
           /\ \A k \in 1..Len(chunks) : chunks[k] # <<>>
           /\ Concatenation(chunks) = rows

\* a file of three rows, one of them on two lines, was read in chunks of
\* two: a full chunk and a last chunk of one row
C24_Witness ==
    /\ csv_pc = "done"
    /\ chunk_size = 2
    /\ Len(csv_file) = 5
    /\ Len(chunks) = 2
    /\ Len(chunks[2]) = 1

\* C25: for a file with a header line, get_row_count returns the number of
\* data rows of the file: the number of rows read_all returns.
C25_RowCountIsRows ==
    (csv_file # <<>> /\ row_count # None /\ data # None) =>
        row_count[1] = Len(data[1])

(* -------------------- ImageEmbedding.encode_images --------------------- *)
\* the longest list encode_images is called with
MaxImages == 4

\* the largest batch_size encode_images is called with
MaxBatchSize == 3

\* the paths of the list: two images, a file Image.open raises on and a
\* path no file exists at
EncodePaths == {"a.png", "b.png", "x.png", "gone.png"}

\* lines 192-199: what loading the path meets
FileState(image_path) ==
    CASE image_path = "gone.png" -> "missing"
      [] image_path = "x.png" -> "unreadable"
      [] OTHER -> "image"

\* the row of batch_features of an image: its normalised vector
Feature(image_path) == encode_image(image_path)

\* lines 214-215 and 220-221: while len(results) <= idx: results.append(None)
RECURSIVE Pad(_, _)
Pad(lst, idx) == IF Len(lst) <= idx THEN Pad(Append(lst, None), idx) ELSE lst

\* lines 213-216 (processed) and 219-222 (not processed): the loop over
\* batch_indices that stores a feature, or None, at each index
RECURSIVE PutBack(_, _, _)
PutBack(lst, indices, processed) ==
    IF indices = <<>> THEN lst
    ELSE LET idx == Head(indices)
             value == IF processed THEN Feature(enc_image_paths[idx + 1]) ELSE None
         IN PutBack([Pad(lst, idx) EXCEPT ![idx + 1] = value],
                    Tail(indices), processed)

\* lines 181-183: encode_images(image_paths, batch_size) is entered
EncodeImagesInit ==
    /\ enc_image_paths \in SeqsUpTo(EncodePaths, MaxImages)
    /\ batch_size \in 1..MaxBatchSize
    /\ batch_start = 0
    /\ batch_pos = 0
    /\ batch_indices = <<>>
    /\ enc_results = <<>>
    /\ failed_batches = {}
    /\ enc_pc = "batch"
    /\ NoSimilarity
    /\ NoCsv
    /\ NoClustering
    /\ Constructed(MissingFile)
    /\ NoClassification
    /\ NoMain

\* what a step of encode_images leaves alone
EncodeFrame ==
    /\ UNCHANGED <<enc_image_paths, batch_size>>
    /\ UNCHANGED <<clusterVars, libraryVars, classifyVars, mainVars, similarityVars,
                   csvVars>>

\* len(batch_paths) of line 184
BatchLen ==
    IF batch_start + batch_size <= Len(enc_image_paths) THEN batch_size
    ELSE Len(enc_image_paths) - batch_start

\* lines 189-199: one iteration of the loop that loads the batch
EncodeBatchLoad ==
    /\ enc_pc = "batch"
    /\ batch_start < Len(enc_image_paths)
    /\ batch_pos < BatchLen
    /\ LET state == FileState(enc_image_paths[batch_start + batch_pos + 1])
       IN /\ batch_indices' = IF state = "image"
                              THEN Append(batch_indices, batch_start + batch_pos)
                              ELSE batch_indices
          /\ enc_results' = IF state = "unreadable"
                            THEN Append(enc_results, None)
                            ELSE enc_results
    /\ batch_pos' = batch_pos + 1
    /\ UNCHANGED <<batch_start, failed_batches, enc_pc>>
    /\ EncodeFrame

\* line 201: no image of the batch was loaded, the next batch begins
EncodeBatchEmpty ==
    /\ enc_pc = "batch"
    /\ batch_start < Len(enc_image_paths)
    /\ batch_pos = BatchLen
    /\ batch_indices = <<>>
    /\ batch_start' = batch_start + batch_size
    /\ batch_pos' = 0
    /\ UNCHANGED <<batch_indices, enc_results, failed_batches, enc_pc>>
    /\ EncodeFrame

\* the variant that extends results with the features of the batch
EncodeBatchRunExtends ==
    /\ enc_pc = "batch"
    /\ batch_start < Len(enc_image_paths)
    /\ batch_pos = BatchLen
    /\ batch_indices # <<>>
    /\ enc_results' = enc_results
                          \o [n \in 1..Len(batch_indices) |->
                                 Feature(enc_image_paths[batch_indices[n] + 1])]
    /\ batch_start' = batch_start + batch_size
    /\ batch_pos' = 0
    /\ batch_indices' = <<>>
    /\ UNCHANGED <<failed_batches, enc_pc>>
    /\ EncodeFrame

\* lines 201-216: the model processes the batch, the features are put back
EncodeBatchRun ==
    /\ enc_pc = "batch"
    /\ batch_start < Len(enc_image_paths)
    /\ batch_pos = BatchLen
    /\ batch_indices # <<>>
    /\ enc_results' = PutBack(enc_results, batch_indices, TRUE)
    /\ batch_start' = batch_start + batch_size
    /\ batch_pos' = 0
    /\ batch_indices' = <<>>
    /\ UNCHANGED <<failed_batches, enc_pc>>
    /\ EncodeFrame

\* lines 217-222: processing the batch raises, None is stored for its images
EncodeBatchFails ==
    /\ enc_pc = "batch"
    /\ batch_start < Len(enc_image_paths)
    /\ batch_pos = BatchLen
    /\ batch_indices # <<>>
    /\ enc_results' = PutBack(enc_results, batch_indices, FALSE)
    /\ failed_batches' = failed_batches \cup {batch_start}
    /\ batch_start' = batch_start + batch_size
    /\ batch_pos' = 0
    /\ batch_indices' = <<>>
    /\ UNCHANGED enc_pc
    /\ EncodeFrame

\* lines 224-228: results is padded to the length of the input and returned
EncodeImagesReturn ==
    /\ enc_pc = "batch"
    /\ batch_start >= Len(enc_image_paths)
    /\ enc_results' = IF enc_image_paths = <<>> THEN enc_results
                      ELSE Pad(enc_results, Len(enc_image_paths) - 1)
    /\ enc_pc' = "done"
    /\ UNCHANGED <<batch_start, batch_pos, batch_indices, failed_batches>>
    /\ EncodeFrame

EncodeImagesNext ==
    \/ EncodeBatchLoad
    \/ EncodeBatchEmpty
    \/ EncodeBatchRun
    \/ EncodeBatchFails
    \/ EncodeImagesReturn

SpecEncode == EncodeImagesInit /\ [][EncodeImagesNext]_vars

\* the start index of the batch that holds index idx
BatchOf(idx) == (idx \div batch_size) * batch_size

\* C29: encode_images returns a list as long as image_paths; element n is
\* the vector of image n when the image loaded and the model processed its
\* batch, and None otherwise.  During the call results is never longer than
\* image_paths and a vector in it is the vector of the image at its position.
C29_AlignedWithInput ==
    /\ Len(enc_results) <= Len(enc_image_paths)
    /\ \A n \in 1..Len(enc_results) :
           enc_results[n] # None =>
               /\ FileState(enc_image_paths[n]) = "image"
               /\ enc_results[n] = Feature(enc_image_paths[n])
    /\ enc_pc = "done" =>
           /\ Len(enc_results) = Len(enc_image_paths)
           /\ \A n \in 1..Len(enc_image_paths) :
                  enc_results[n] =
                      IF /\ FileState(enc_image_paths[n]) = "image"
                         /\ BatchOf(n - 1) \notin failed_batches
                      THEN Feature(enc_image_paths[n])
                      ELSE None

\* two batches of two: the first holds an image after a file that does not
\* load, the second an image before one; the model raised on neither
C29_Witness ==
    /\ enc_pc = "done"
    /\ batch_size = 2
    /\ enc_image_paths = <<"x.png", "a.png", "b.png", "x.png">>
    /\ failed_batches = {}
    /\ enc_results = <<None, Feature("a.png"), Feature("b.png"), None>>
====
